---------------------------- MODULE Spec2Model ----------------------------
(***************************************************************************)
(* A model of cleanarr's matching-and-decision engine                      *)
(* (src/services/cleanup.py) and of the cleanup command that drives it     *)
(* (src/core/cli.py).                                                      *)
(*                                                                         *)
(* Titles are sequences of one-character strings.  A similarity score is   *)
(* a triple <<n, d, e>>: the rational n/d, displaced by e units in the     *)
(* last place of the IEEE-754 double that Python computes (e is -1, 0 or   *)
(* 1), so that scores compare exactly as the floats of the program do.     *)
(***************************************************************************)
EXTENDS Integers, Sequences, FiniteSets, TLC

(***************************************************************************)
(* Characters                                                              *)
(***************************************************************************)
IsSpace(c) == c = " "

IsWord(c) ==
    c \in {"a", "b", "c", "d", "e", "f", "g", "h", "i", "j", "k", "l", "m",
           "n", "o", "p", "q", "r", "s", "t", "u", "v", "w", "x", "y", "z",
           "0", "1", "2", "3", "4", "5", "6", "7", "8", "9", "_",
           "T", "H", "E", "A", "N", "M", "U", "J"}

Lower(c) ==
    CASE c = "T" -> "t" [] c = "H" -> "h" [] c = "E" -> "e"
      [] c = "A" -> "a" [] c = "N" -> "n" [] c = "M" -> "m"
      [] c = "U" -> "u" [] c = "J" -> "j" [] OTHER -> c

(***************************************************************************)
(* normalize_title, one regular-expression substitution at a time          *)
(***************************************************************************)
RECURSIVE SpaceRun(_, _)
\* number of whitespace characters of t starting at position i
SpaceRun(t, i) ==
    IF i <= Len(t) /\ IsSpace(t[i]) THEN 1 + SpaceRun(t, i + 1) ELSE 0

HasPrefixCI(t, w) ==
    /\ Len(t) >= Len(w)
    /\ \A i \in 1..Len(w) : Lower(t[i]) = w[i]

\* re.sub(r"^(The|A|An)\s+", "", title, flags=re.IGNORECASE)
\* k is the length of the article matched, 0 when none
StripArticle(t) ==
    LET k == IF HasPrefixCI(t, <<"t", "h", "e">>) /\ SpaceRun(t, 4) > 0 THEN 3
             ELSE IF HasPrefixCI(t, <<"a">>) /\ SpaceRun(t, 2) > 0 THEN 1
             ELSE IF HasPrefixCI(t, <<"a", "n">>) /\ SpaceRun(t, 3) > 0 THEN 2
             ELSE 0
    IN  IF k = 0 THEN t
        ELSE SubSeq(t, k + SpaceRun(t, k + 1) + 1, Len(t))

\* the match of \s*\([^)]*\)$ may start at position i
ParenMatchAt(t, i) ==
    LET j == i + SpaceRun(t, i)
    IN  /\ j < Len(t)
        /\ t[j] = "("
        /\ t[Len(t)] = ")"
        /\ \A k \in (j + 1)..(Len(t) - 1) : t[k] # ")"

\* re.sub(r"\s*\([^)]*\)$", "", title): the leftmost match is removed
StripParen(t) ==
    LET starts == {i \in 1..Len(t) : ParenMatchAt(t, i)}
    IN  IF starts = {} THEN t
        ELSE LET i == CHOOSE x \in starts : \A y \in starts : x <= y
             IN  SubSeq(t, 1, i - 1)

\* re.sub(r"[^\w\s]", " ", title)
ReplaceSpecial(t) ==
    [i \in 1..Len(t) |-> IF IsWord(t[i]) \/ IsSpace(t[i]) THEN t[i] ELSE " "]

RECURSIVE CollapseFrom(_, _)
\* re.sub(r"\s+", " ", title) followed by strip(), from position i on
CollapseFrom(t, i) ==
    IF i > Len(t) THEN <<>>
    ELSE IF IsSpace(t[i])
         THEN LET j == i + SpaceRun(t, i)
              IN  IF i = 1 \/ j > Len(t) THEN CollapseFrom(t, j)
                  ELSE <<" ">> \o CollapseFrom(t, j)
         ELSE <<t[i]>> \o CollapseFrom(t, i + 1)

\* title.lower()
LowerAll(t) == [i \in 1..Len(t) |-> Lower(t[i])]

normalize_title(title) ==
    LowerAll(CollapseFrom(ReplaceSpecial(StripParen(StripArticle(title))), 1))

(***************************************************************************)
(* calculate_similarity: difflib.SequenceMatcher(None, a, b).ratio()       *)
(***************************************************************************)
RECURSIVE RunLen(_, _, _, _, _, _)
\* length of the common run of a[i..ahi] and b[j..bhi] that starts at (i, j)
RunLen(a, i, ahi, b, j, bhi) ==
    IF i <= ahi /\ j <= bhi /\ a[i] = b[j]
    THEN 1 + RunLen(a, i + 1, ahi, b, j + 1, bhi)
    ELSE 0

\* find_longest_match: <<i, j, k>>, the longest run; of those the one that
\* starts earliest in a, and of those the one that starts earliest in b
LongestMatch(a, alo, ahi, b, blo, bhi) ==
    LET cand == {<<i, j>> \in (alo..ahi) \X (blo..bhi) : a[i] = b[j]}
        len(p) == RunLen(a, p[1], ahi, b, p[2], bhi)
    IN  IF cand = {} THEN <<alo, blo, 0>>
        ELSE LET best == CHOOSE p \in cand :
                            \A q \in cand :
                                \/ len(p) > len(q)
                                \/ /\ len(p) = len(q)
                                   /\ \/ p[1] < q[1]
                                      \/ p[1] = q[1] /\ p[2] <= q[2]
             IN  <<best[1], best[2], len(best)>>

RECURSIVE Matches(_, _, _, _, _, _)
\* get_matching_blocks: the total size of the matching blocks
Matches(a, alo, ahi, b, blo, bhi) ==
    IF alo > ahi \/ blo > bhi THEN 0
    ELSE LET m == LongestMatch(a, alo, ahi, b, blo, bhi)
         IN  IF m[3] = 0 THEN 0
             ELSE m[3]
                  + Matches(a, alo, m[1] - 1, b, blo, m[2] - 1)
                  + Matches(a, m[1] + m[3], ahi, b, m[2] + m[3], bhi)

\* ratio(): 2.0 * matches / length, and 1.0 when both strings are empty
Ratio(a, b) ==
    IF Len(a) + Len(b) = 0 THEN <<1, 1, 0>>
    ELSE <<2 * Matches(a, 1, Len(a), b, 1, Len(b)), Len(a) + Len(b), 0>>

calculate_similarity(title1, title2) ==
    Ratio(normalize_title(title1), normalize_title(title2))

(***************************************************************************)
(* Scores as floats                                                        *)
(***************************************************************************)
\* title_score + 0.1.  RoundsDown holds the ratios r = 2M/T, T <= 24, for
\* which the double r + 0.1 lies below the double nearest to the exact sum,
\* RoundsUp those for which it lies above.
AddBonus(s) ==
    LET RoundsDown ==
            {<<4, 21>>, <<4, 19>>, <<2, 9>>, <<3, 11>>, <<2, 7>>, <<6, 19>>,
             <<8, 23>>, <<8, 21>>, <<6, 11>>, <<12, 19>>, <<2, 3>>, <<7, 10>>,
             <<14, 19>>, <<16, 21>>, <<14, 17>>, <<16, 19>>, <<6, 7>>, <<8, 9>>}
        RoundsUp ==
            {<<1, 12>>, <<2, 11>>, <<1, 5>>, <<4, 17>>, <<4, 15>>, <<6, 17>>,
             <<12, 13>>, <<22, 23>>}
        SameFraction(f) == s[1] * f[2] = s[2] * f[1]
    IN  <<10 * s[1] + s[2], 10 * s[2],
          IF \E f \in RoundsDown : SameFraction(f) THEN -1
          ELSE IF \E f \in RoundsUp : SameFraction(f) THEN 1
          ELSE 0>>

ScoreLT(x, y) ==
    \/ x[1] * y[2] < y[1] * x[2]
    \/ x[1] * y[2] = y[1] * x[2] /\ x[3] < y[3]

ScoreGE(x, y) == ~ScoreLT(x, y)

ScoreEQ(x, y) == ~ScoreLT(x, y) /\ ~ScoreLT(y, x)

Zero == <<0, 1, 0>>

DefaultThreshold == <<4, 5, 0>>

(***************************************************************************)
(* Bounds and input domains                                                *)
(***************************************************************************)
MaxCatalog == 2

NoYear == 0

Years == {NoYear, 2002, 2003}

TheMatrix == <<"T", "h", "e", " ", "M", "a", "t", "r", "i", "x">>
Matrix == <<"M", "a", "t", "r", "i", "x">>
Up == <<"U", "p">>

Titles ==
    {TheMatrix, Matrix, <<"M", "a", "t", "r", "i", "x", " ", "2">>, Up,
     <<"M", "a", "t", "r", "i", "x", " ", "9", "9", "9">>,
     <<"M", "a", "t", "r", "i", "x", " ", "9", " ", "M", "e", "n">>,
     <<"J", "o", "w", "s">>}

\* calculate_similarity over the titles of the model, evaluated once
SimTable == {<<p, calculate_similarity(p[1], p[2])>> : p \in Titles \X Titles}

Similarity(t1, t2) ==
    IF t1 \in Titles /\ t2 \in Titles
    THEN (CHOOSE q \in SimTable : q[1] = <<t1, t2>>)[2]
    ELSE calculate_similarity(t1, t2)

SeqsUpTo(S, n) == UNION {[1..k -> S] : k \in 0..n}

(***************************************************************************)
(* Candidate matcher                                                       *)
(***************************************************************************)
\* title_score + year_bonus of one catalog entry
TotalScore(name, production_year, title, year) ==
    LET title_score == Similarity(name, title)
    IN  IF production_year # NoYear /\ year # NoYear /\ production_year = year
        THEN AddBonus(title_score)
        ELSE title_score

MovieBetterGE(total_score, best_score, threshold) ==
    ScoreGE(total_score, best_score) /\ ScoreGE(total_score, threshold)

\* the test that replaces the best match in find_matching_movie
MovieBetter(total_score, best_score, threshold) ==
    ScoreLT(best_score, total_score) /\ ScoreGE(total_score, threshold)

\* the test that replaces the best match in find_matching_series
SeriesBetter(total_score, best_score, threshold) ==
    ScoreLT(best_score, total_score) /\ ScoreGE(total_score, threshold)

RECURSIVE MovieLoop(_, _, _, _, _, _)
MovieLoop(jellyfin_movie, radarr_movies, threshold, i, best_match, best_score) ==
    IF i > Len(radarr_movies) THEN best_match
    ELSE LET total_score == TotalScore(jellyfin_movie.Name,
                                       jellyfin_movie.ProductionYear,
                                       radarr_movies[i].title,
                                       radarr_movies[i].year)
         IN  IF MovieBetter(total_score, best_score, threshold)
             THEN MovieLoop(jellyfin_movie, radarr_movies, threshold,
                            i + 1, i, total_score)
             ELSE MovieLoop(jellyfin_movie, radarr_movies, threshold,
                            i + 1, best_match, best_score)

\* the position in radarr_movies of the entry returned, 0 for None
find_matching_movie(jellyfin_movie, radarr_movies, threshold) ==
    MovieLoop(jellyfin_movie, radarr_movies, threshold, 1, 0, Zero)

RECURSIVE SeriesLoop(_, _, _, _, _, _)
SeriesLoop(jellyfin_series, sonarr_series, threshold, i, best_match, best_score) ==
    IF i > Len(sonarr_series) THEN best_match
    ELSE LET total_score == TotalScore(jellyfin_series.Name,
                                       jellyfin_series.ProductionYear,
                                       sonarr_series[i].title,
                                       sonarr_series[i].year)
         IN  IF SeriesBetter(total_score, best_score, threshold)
             THEN SeriesLoop(jellyfin_series, sonarr_series, threshold,
                             i + 1, i, total_score)
             ELSE SeriesLoop(jellyfin_series, sonarr_series, threshold,
                             i + 1, best_match, best_score)

\* the position in sonarr_series of the entry returned, 0 for None
find_matching_series(jellyfin_series, sonarr_series, threshold) ==
    SeriesLoop(jellyfin_series, sonarr_series, threshold, 1, 0, Zero)

(***************************************************************************)
(* State                                                                   *)
(***************************************************************************)
VARIABLES
    mItem,        \* matcher: the watched item
    mCatalog,     \* matcher: the catalog, in order
    mThreshold,   \* matcher: the threshold passed
    mCalled,      \* matcher: "none", "movie" or "series"
    mResult,      \* matcher: position of the entry returned, 0 for None
    radarr,       \* self.radarr is set (the movie manager is available)
    sonarr,       \* self.sonarr is set (the series manager is available)
    qbittorrent,  \* self.qbittorrent is set (the torrent client is connected)
    jf,           \* playback server: viewers, watched items, episodes, favorites
    catalog,      \* library managers: movies, series and episodes they track
    torrents,     \* names of the torrents the client reports as completed
    faults,       \* collaborator calls that raise
    cPc,          \* get_cleanup_candidates: "idle" or "returned"
    cArgs,        \* get_cleanup_candidates: the arguments of the call
    cMovies,      \* get_cleanup_candidates: cleanup_movies returned
    cSeries,      \* get_cleanup_candidates: cleanup_series returned
    cEpisodes,    \* get_cleanup_candidates: episode_cleanup returned
    hExit,        \* handle_cleanup: the exit code, NoExit before it returns
    xPc,          \* execute_cleanup: "idle", "episodes", "movies", "series", "done"
    xArgs,        \* execute_cleanup: the arguments of the call
    xI,           \* execute_cleanup: position in the list being traversed
    xJ,           \* execute_cleanup: position in the episodes of entry xI
    results,      \* execute_cleanup: the result dictionary
    calls,        \* collaborator calls issued so far, in order
    attempts,     \* candidates whose loop body has run, in order
    pCall,        \* a helper called on its own: "none" or its name
    pArgs,        \* the arguments of that call
    pResult       \* what that call returned

matchVars == <<mItem, mCatalog, mThreshold, mCalled, mResult>>

svcVars == <<radarr, sonarr, qbittorrent>>

worldVars == <<jf, catalog, torrents, faults>>

candVars == <<cPc, cArgs, cMovies, cSeries, cEpisodes, hExit>>

execVars == <<xPc, xArgs, xI, xJ, results, calls, attempts>>

pureVars == <<pCall, pArgs, pResult>>

vars == <<matchVars, svcVars, execVars, worldVars, candVars, pureVars>>

NoAge == -1

NoExit == -1

\* the state of the parts a specification does not exercise
MatchIdle ==
    /\ mItem = [Name |-> <<>>, ProductionYear |-> NoYear]
    /\ mCatalog = <<>>
    /\ mThreshold = DefaultThreshold
    /\ mCalled = "none"
    /\ mResult = 0

ExecIdle ==
    /\ xPc = "idle"
    /\ xArgs = [movies |-> <<>>, series |-> <<>>, episode_series |-> <<>>,
                delete_files |-> TRUE, add_exclusion |-> FALSE,
                dry_run |-> TRUE, delete_episodes |-> FALSE]
    /\ xI = 1
    /\ xJ = 1
    /\ results = [movies_deleted |-> 0, movies_failed |-> 0,
                  series_deleted |-> 0, series_failed |-> 0,
                  episodes_deleted |-> 0, episodes_failed |-> 0,
                  errors |-> <<>>]
    /\ calls = <<>>
    /\ attempts = <<>>

WorldIdle ==
    /\ jf = [users |-> <<>>, movies |-> <<>>, series |-> <<>>,
             episodes |-> <<>>, seasons |-> <<>>]
    /\ catalog = [movies |-> <<>>, series |-> <<>>, episodes |-> <<>>]
    /\ torrents = <<>>
    /\ faults = {}

PureIdle ==
    /\ pCall = "none"
    /\ pArgs = <<>>
    /\ pResult = <<>>

CandIdle ==
    /\ cPc = "idle"
    /\ cArgs = [min_watch_age_days |-> NoAge, collect_episode_data |-> FALSE]
    /\ cMovies = <<>>
    /\ cSeries = <<>>
    /\ cEpisodes = <<>>
    /\ hExit = NoExit

(***************************************************************************)
(* The matcher applied to bounded inputs                                   *)
(***************************************************************************)
MatchInit ==
    /\ mItem \in [Name : Titles, ProductionYear : Years]
    /\ mCatalog \in SeqsUpTo([title : Titles, year : Years], MaxCatalog)
    /\ mThreshold \in {Zero, DefaultThreshold}
    /\ mCalled = "none"
    /\ mResult = 0
    /\ radarr = TRUE
    /\ sonarr = TRUE
    /\ qbittorrent = FALSE
    /\ ExecIdle
    /\ WorldIdle
    /\ CandIdle
    /\ PureIdle

CallFindMatchingMovie ==
    /\ mCalled = "none"
    /\ mCalled' = "movie"
    /\ mResult' = find_matching_movie(mItem, mCatalog, mThreshold)
    /\ UNCHANGED <<mItem, mCatalog, mThreshold, svcVars, pureVars, execVars, worldVars, candVars>>

CallFindMatchingSeries ==
    /\ mCalled = "none"
    /\ mCalled' = "series"
    /\ mResult' = find_matching_series(mItem, mCatalog, mThreshold)
    /\ UNCHANGED <<mItem, mCatalog, mThreshold, svcVars, pureVars, execVars, worldVars, candVars>>

MatchNext == CallFindMatchingMovie \/ CallFindMatchingSeries

SpecMatch == MatchInit /\ [][MatchNext]_vars

\* the total score of the catalog entry at position i for the watched item
EntryScore(i) ==
    TotalScore(mItem.Name, mItem.ProductionYear,
               mCatalog[i].title, mCatalog[i].year)

\* C9: an entry returned by find_matching_movie / find_matching_series has
\* a total score that no catalog entry exceeds and that is at least the
\* threshold, and every entry before it in catalog order scores strictly
\* less (the first of the entries sharing the maximum is the one returned).
C9_ReturnsFirstMaximalEntry ==
    (mCalled # "none" /\ mResult # 0) =>
        /\ mResult \in 1..Len(mCatalog)
        /\ ScoreGE(EntryScore(mResult), mThreshold)
        /\ \A j \in 1..Len(mCatalog) : ScoreGE(EntryScore(mResult), EntryScore(j))
        /\ \A j \in 1..(mResult - 1) : ScoreLT(EntryScore(j), EntryScore(mResult))

\* a tie: the entry returned is followed by a distinct entry of equal score
C9_Witness ==
    /\ mCalled = "movie"
    /\ mResult # 0
    /\ \E j \in (mResult + 1)..Len(mCatalog) :
          /\ ScoreEQ(EntryScore(j), EntryScore(mResult))
          /\ mCatalog[j] # mCatalog[mResult]

\* C10: find_matching_movie / find_matching_series returns None if and
\* only if no catalog entry has total score >= threshold.
C10_NoneIffNoEntryClearsThreshold ==
    (mCalled # "none") =>
        ((mResult = 0) <=>
            ~\E j \in 1..Len(mCatalog) : ScoreGE(EntryScore(j), mThreshold))

\* C11: the total score of a catalog entry is its title similarity plus
\* exactly 0.1 when both years are known and equal, and plus 0 otherwise.
C11_YearBonusExactlyOneTenth ==
    LET \* title similarity plus one tenth in exact arithmetic
        ExactTotal(name, production_year, title, year) ==
            IF production_year # NoYear /\ year # NoYear /\ production_year = year
            THEN <<10 * Similarity(name, title)[1] + Similarity(name, title)[2],
                   10 * Similarity(name, title)[2], 0>>
            ELSE Similarity(name, title)
    IN  (mCalled # "none") =>
            \A j \in 1..Len(mCatalog) :
                ScoreEQ(EntryScore(j),
                        ExactTotal(mItem.Name, mItem.ProductionYear,
                                   mCatalog[j].title, mCatalog[j].year))

(***************************************************************************)
(* Cleanup executor: execute_cleanup, one loop iteration per step          *)
(***************************************************************************)
MaxMovies == 2

MaxSeries == 1

MaxEpisodes == 1

\* self.jellyfin: the playback-server client is a required constructor
\* argument and handle_cleanup always builds it
jellyfin == TRUE

\* radarr.delete_movie / sonarr.delete_series: the HTTP status is 200 or
\* 204, another 2xx status, or raise_for_status() raises
DeleteOutcomes == {"true", "false", "raise"}

EpisodeEntry(k, n) ==
    [sonarr_series |-> [id |-> k],
     episodes |-> [j \in 1..n |-> [jellyfin_episode |-> [Id |-> <<k, j>>],
                                    sonarr_episode |-> [id |-> <<k, j>>]]],
     in_qbittorrent |-> FALSE]

EmptyResults ==
    [movies_deleted |-> 0, movies_failed |-> 0,
     series_deleted |-> 0, series_failed |-> 0,
     episodes_deleted |-> 0, episodes_failed |-> 0,
     errors |-> <<>>]

\* the episode branch is entered
EpisodesEnabled(args) ==
    /\ args.delete_episodes
    /\ args.episode_series # <<>>
    /\ sonarr
    /\ jellyfin

\* one iteration of the episode loop: the calls it issues
EpisodeCalls(cs, episode, dry_run, deleted) ==
    IF dry_run THEN cs
    ELSE LET c1 == Append(cs, [op |-> "delete_item",
                               id |-> episode.jellyfin_episode.Id])
         IN  IF deleted = "raise" THEN c1
             ELSE Append(c1, [op |-> "set_single_episode_monitored",
                              id |-> episode.sonarr_episode.id])

\* one iteration of the episode loop: the counters and the error list
EpisodeResults(res, episode, dry_run, deleted, monitored) ==
    IF dry_run THEN [res EXCEPT !.episodes_deleted = @ + 1]
    ELSE IF deleted = "raise" \/ monitored = "raise"
         THEN [res EXCEPT !.errors = Append(@, <<"episode", episode.jellyfin_episode.Id>>),
                          !.episodes_failed = @ + 1]
         ELSE [res EXCEPT !.episodes_deleted = @ + 1]

MovieCallsAlways(cs, movie_data, args) ==
    Append(cs, [op |-> "delete_movie", id |-> movie_data.radarr_item.id,
                delete_files |-> args.delete_files,
                add_exclusion |-> args.add_exclusion])

\* one iteration of the movie loop: the call it issues
MovieCalls(cs, movie_data, args) ==
    IF args.dry_run THEN cs
    ELSE Append(cs, [op |-> "delete_movie", id |-> movie_data.radarr_item.id,
                     delete_files |-> args.delete_files,
                     add_exclusion |-> args.add_exclusion])

MovieResultsDropFalse(res, movie_data, dry_run, success) ==
    IF dry_run THEN [res EXCEPT !.movies_deleted = @ + 1]
    ELSE IF success = "raise"
         THEN [res EXCEPT !.errors = Append(@, <<"movie", movie_data.radarr_item.id>>),
                          !.movies_failed = @ + 1]
         ELSE IF success = "true"
              THEN [res EXCEPT !.movies_deleted = @ + 1]
              ELSE res

\* one iteration of the movie loop: the counters and the error list
MovieResults(res, movie_data, dry_run, success) ==
    IF dry_run THEN [res EXCEPT !.movies_deleted = @ + 1]
    ELSE IF success = "raise"
         THEN [res EXCEPT !.errors = Append(@, <<"movie", movie_data.radarr_item.id>>),
                          !.movies_failed = @ + 1]
         ELSE IF success = "true"
              THEN [res EXCEPT !.movies_deleted = @ + 1]
              ELSE [res EXCEPT !.movies_failed = @ + 1]

MovieAdvanceAbort(i, n, success) == IF success = "raise" THEN n + 1 ELSE i + 1

MovieAdvanceRetryOnce(i, n, success) ==
    IF success = "raise"
       /\ Cardinality({k \in 1..Len(attempts) : attempts[k][1] = "movie"}) = i - 1
    THEN i
    ELSE i + 1

\* the movie loop goes on with the next candidate whatever the outcome
MovieAdvance(i, n, success) == i + 1

SeriesCallsDefaults(cs, series_data, args) ==
    IF args.dry_run THEN cs
    ELSE Append(cs, [op |-> "delete_series", id |-> series_data.sonarr_item.id,
                     delete_files |-> TRUE,
                     add_exclusion |-> FALSE])

\* one iteration of the series loop: the call it issues
SeriesCalls(cs, series_data, args) ==
    IF args.dry_run THEN cs
    ELSE Append(cs, [op |-> "delete_series", id |-> series_data.sonarr_item.id,
                     delete_files |-> args.delete_files,
                     add_exclusion |-> args.add_exclusion])

\* one iteration of the series loop: the counters and the error list
SeriesResults(res, series_data, dry_run, success) ==
    IF dry_run THEN [res EXCEPT !.series_deleted = @ + 1]
    ELSE IF success = "raise"
         THEN [res EXCEPT !.errors = Append(@, <<"series", series_data.sonarr_item.id>>),
                          !.series_failed = @ + 1]
         ELSE IF success = "true"
              THEN [res EXCEPT !.series_deleted = @ + 1]
              ELSE [res EXCEPT !.series_failed = @ + 1]

ExecInit ==
    /\ MatchIdle
    /\ WorldIdle
    /\ CandIdle
    /\ PureIdle
    /\ radarr \in BOOLEAN
    /\ sonarr \in BOOLEAN
    /\ qbittorrent = FALSE
    /\ xPc = "idle"
    \* candidate lists; the first candidate of a list may carry the
    \* in_qbittorrent flag
    /\ xArgs \in [movies :
                      UNION {{[i \in 1..n |-> [radarr_item |-> [id |-> i],
                                               in_qbittorrent |-> q /\ i = 1]] :
                                 q \in BOOLEAN} : n \in 0..MaxMovies},
                  series :
                      UNION {{[i \in 1..n |-> [sonarr_item |-> [id |-> i],
                                               in_qbittorrent |-> q /\ i = 1]] :
                                 q \in BOOLEAN} : n \in 0..MaxSeries},
                  episode_series :
                      {<<>>} \cup {<<EpisodeEntry(1, n)>> : n \in 1..MaxEpisodes}
                            \cup {<<EpisodeEntry(1, n), EpisodeEntry(2, 1)>> :
                                     n \in 1..MaxEpisodes},
                  delete_files : BOOLEAN, add_exclusion : BOOLEAN,
                  dry_run : BOOLEAN, delete_episodes : BOOLEAN]
    /\ xI = 1
    /\ xJ = 1
    /\ results = EmptyResults
    /\ calls = <<>>
    /\ attempts = <<>>

\* the call: the result dictionary is created
ExecuteCleanup ==
    /\ xPc = "idle"
    /\ xPc' = "episodes"
    /\ results' = EmptyResults
    /\ xI' = 1
    /\ xJ' = 1
    /\ UNCHANGED <<matchVars, svcVars, pureVars, worldVars, candVars, xArgs, calls, attempts>>

EpisodeStep ==
    /\ xPc = "episodes"
    /\ EpisodesEnabled(xArgs)
    /\ xI <= Len(xArgs.episode_series)
    /\ LET entry == xArgs.episode_series[xI]
           episode == entry.episodes[xJ]
       \* jellyfin.delete_item returns (the value is not looked at) or
       \* raises; SonarrClient defines no set_single_episode_monitored, so
       \* that attribute lookup raises
       IN  /\ \E deleted \in {"returns", "raise"}, monitored \in {"raise"} :
                 /\ calls' = EpisodeCalls(calls, episode, xArgs.dry_run, deleted)
                 /\ results' = EpisodeResults(results, episode, xArgs.dry_run,
                                              deleted, monitored)
           /\ attempts' = Append(attempts, <<"episode", episode.jellyfin_episode.Id>>)
           /\ IF xJ < Len(entry.episodes)
              THEN xJ' = xJ + 1 /\ xI' = xI
              ELSE xJ' = 1 /\ xI' = xI + 1
    /\ UNCHANGED <<matchVars, svcVars, pureVars, worldVars, candVars, xPc, xArgs>>

EpisodesDone ==
    /\ xPc = "episodes"
    /\ ~EpisodesEnabled(xArgs) \/ xI > Len(xArgs.episode_series)
    /\ xPc' = "movies"
    /\ xI' = 1
    /\ xJ' = 1
    /\ UNCHANGED <<matchVars, svcVars, pureVars, worldVars, candVars, xArgs, results, calls, attempts>>

MovieStepLastFirst ==
    /\ xPc = "movies"
    /\ radarr
    /\ xI <= Len(xArgs.movies)
    /\ LET movie_data == xArgs.movies[Len(xArgs.movies) - xI + 1]
       IN  /\ \E success \in DeleteOutcomes :
                 /\ calls' = MovieCalls(calls, movie_data, xArgs)
                 /\ results' = MovieResults(results, movie_data, xArgs.dry_run, success)
                 /\ xI' = MovieAdvance(xI, Len(xArgs.movies), success)
           /\ attempts' = Append(attempts, <<"movie", movie_data.radarr_item.id>>)
    /\ UNCHANGED <<matchVars, svcVars, pureVars, worldVars, candVars, xPc, xArgs, xJ>>

MovieStep ==
    /\ xPc = "movies"
    /\ radarr
    /\ xI <= Len(xArgs.movies)
    /\ LET movie_data == xArgs.movies[xI]
       IN  /\ \E success \in DeleteOutcomes :
                 /\ calls' = MovieCalls(calls, movie_data, xArgs)
                 /\ results' = MovieResults(results, movie_data, xArgs.dry_run, success)
                 /\ xI' = MovieAdvance(xI, Len(xArgs.movies), success)
           /\ attempts' = Append(attempts, <<"movie", movie_data.radarr_item.id>>)
    /\ UNCHANGED <<matchVars, svcVars, pureVars, worldVars, candVars, xPc, xArgs, xJ>>

MoviesDone ==
    /\ xPc = "movies"
    /\ ~radarr \/ xI > Len(xArgs.movies)
    /\ xPc' = "series"
    /\ xI' = 1
    /\ UNCHANGED <<matchVars, svcVars, pureVars, worldVars, candVars, xArgs, xJ, results, calls, attempts>>

SeriesStep ==
    /\ xPc = "series"
    /\ sonarr
    /\ xI <= Len(xArgs.series)
    /\ LET series_data == xArgs.series[xI]
       IN  /\ \E success \in DeleteOutcomes :
                 /\ calls' = SeriesCalls(calls, series_data, xArgs)
                 /\ results' = SeriesResults(results, series_data, xArgs.dry_run, success)
           /\ attempts' = Append(attempts, <<"series", series_data.sonarr_item.id>>)
           /\ xI' = xI + 1
    /\ UNCHANGED <<matchVars, svcVars, pureVars, worldVars, candVars, xPc, xArgs, xJ>>

\* return results
SeriesDone ==
    /\ xPc = "series"
    /\ ~sonarr \/ xI > Len(xArgs.series)
    /\ xPc' = "done"
    /\ UNCHANGED <<matchVars, svcVars, pureVars, worldVars, candVars, xArgs, xI, xJ, results, calls, attempts>>

ExecNext ==
    \/ ExecuteCleanup
    \/ EpisodeStep
    \/ EpisodesDone
    \/ MovieStep
    \/ MoviesDone
    \/ SeriesStep
    \/ SeriesDone

SpecExec == ExecInit /\ [][ExecNext]_vars

\* the scheduling of a pass: execute_cleanup is sequential code whose every
\* collaborator call returns or raises, so a step that can be taken is taken
SpecExecLive == SpecExec /\ WF_vars(ExecNext)

\* how many loop iterations have run for the candidate id of category cat
TimesAttempted(cat, id) ==
    Cardinality({i \in 1..Len(attempts) : attempts[i] = <<cat, id>>})

\* how many loop iterations have run in category cat
AttemptCount(cat) ==
    Cardinality({i \in 1..Len(attempts) : attempts[i][1] = cat})

SubmittedEpisodes ==
    UNION {{xArgs.episode_series[k].episodes[j].jellyfin_episode.Id :
              j \in 1..Len(xArgs.episode_series[k].episodes)} :
           k \in 1..Len(xArgs.episode_series)}

FailedTotal ==
    results.movies_failed + results.series_failed + results.episodes_failed

\* C1: in a dry run no deletion collaborator is ever invoked (no
\* delete_movie, delete_series, delete_item or monitoring update), every
\* candidate processed so far has incremented its category's 'deleted'
\* counter, and no 'failed' counter or error entry exists.
C1_DryRunCallsNothing ==
    xArgs.dry_run =>
        /\ calls = <<>>
        /\ results.movies_deleted = AttemptCount("movie")
        /\ results.series_deleted = AttemptCount("series")
        /\ results.episodes_deleted = AttemptCount("episode")
        /\ FailedTotal = 0
        /\ results.errors = <<>>

\* a finished dry run that processed candidates of all three categories
C1_Witness ==
    /\ xPc = "done"
    /\ xArgs.dry_run
    /\ AttemptCount("movie") > 0
    /\ AttemptCount("series") > 0
    /\ AttemptCount("episode") > 0

\* C6 as claimed: after a pass in which a deletion failed, every submitted
\* candidate has been attempted exactly once.
C6_EverySubmittedAttemptedOnce ==
    (xPc = "done" /\ FailedTotal > 0) =>
        /\ \A id \in {xArgs.movies[i].radarr_item.id : i \in 1..Len(xArgs.movies)} : TimesAttempted("movie", id) = 1
        /\ \A id \in {xArgs.series[i].sonarr_item.id : i \in 1..Len(xArgs.series)} : TimesAttempted("series", id) = 1
        /\ \A id \in SubmittedEpisodes : TimesAttempted("episode", id) = 1

\* C6 as amended: no candidate is ever attempted twice, and after the pass
\* every submitted candidate of a category that the pass processes (movies
\* when the movie manager is present, series when the series manager is
\* present, episodes when their deletion was requested and the series
\* manager is present) has been attempted exactly once, whatever the
\* outcomes of the deletion calls; the other categories are not attempted.
C6_ProcessedCategoriesAttemptedOnce ==
    /\ \A i, j \in 1..Len(attempts) : attempts[i] = attempts[j] => i = j
    /\ xPc = "done" =>
        /\ \A id \in {xArgs.movies[i].radarr_item.id : i \in 1..Len(xArgs.movies)} :
              TimesAttempted("movie", id) = IF radarr THEN 1 ELSE 0
        /\ \A id \in {xArgs.series[i].sonarr_item.id : i \in 1..Len(xArgs.series)} :
              TimesAttempted("series", id) = IF sonarr THEN 1 ELSE 0
        /\ \A id \in SubmittedEpisodes :
              TimesAttempted("episode", id) = IF EpisodesEnabled(xArgs) THEN 1 ELSE 0

\* the first movie and an episode failed, and the pass went on to the
\* second movie and to the series
C6_Witness ==
    /\ xPc = "done"
    /\ ~xArgs.dry_run
    /\ results.episodes_failed > 0
    /\ Len(results.errors) > 1
    /\ results.errors[2] = <<"movie", 1>>
    /\ TimesAttempted("movie", 2) = 1
    /\ TimesAttempted("series", 1) = 1

\* C7 as claimed: for every call, deleted + failed of each category equals
\* the number of candidates submitted for it.
C7_CountsEqualSubmitted ==
    xPc = "done" =>
        /\ results.movies_deleted + results.movies_failed = Len(xArgs.movies)
        /\ results.series_deleted + results.series_failed = Len(xArgs.series)
        /\ results.episodes_deleted + results.episodes_failed
              = Cardinality(SubmittedEpisodes)

\* C7 as amended: deleted + failed equals the number of candidates
\* submitted for a category that the pass processes (movies when the movie
\* manager is present, series when the series manager is present, episodes
\* when delete_episodes is set and the series manager is present), and is
\* 0 for a category it skips.
C7_CountsEqualProcessed ==
    xPc = "done" =>
        /\ results.movies_deleted + results.movies_failed
              = IF radarr THEN Len(xArgs.movies) ELSE 0
        /\ results.series_deleted + results.series_failed
              = IF sonarr THEN Len(xArgs.series) ELSE 0
        /\ results.episodes_deleted + results.episodes_failed
              = IF EpisodesEnabled(xArgs) THEN Cardinality(SubmittedEpisodes) ELSE 0

\* movies counted both ways while the series submitted were skipped
C7_Witness ==
    /\ xPc = "done"
    /\ results.movies_deleted > 0
    /\ results.movies_failed > 0
    /\ Len(results.errors) = 0
    /\ ~sonarr
    /\ Len(xArgs.series) > 0

\* C8: after a pass that is not a dry run the error list has one entry per
\* candidate counted as failed.
C8_OneErrorPerFailure ==
    (xPc = "done" /\ ~xArgs.dry_run) => Len(results.errors) = FailedTotal

\* C21: within one execute_cleanup pass every episode deletion comes before
\* any movie deletion and every movie deletion before any series deletion,
\* both for the loop iterations and for the collaborator calls they issue;
\* within a category the candidates are processed in the order submitted.
C21_EpisodesThenMoviesThenSeries ==
    LET Rank(cat) ==
            CASE cat \in {"episode", "delete_item", "set_single_episode_monitored"} -> 1
              [] cat \in {"movie", "delete_movie"} -> 2
              [] cat \in {"series", "delete_series"} -> 3
        \* the place of a candidate in the list submitted for its category
        Place(cat, id) ==
            CASE cat = "movie" ->
                    <<0, CHOOSE p \in 1..Len(xArgs.movies) :
                             xArgs.movies[p].radarr_item.id = id>>
              [] cat = "series" ->
                    <<0, CHOOSE p \in 1..Len(xArgs.series) :
                             xArgs.series[p].sonarr_item.id = id>>
              [] cat = "episode" ->
                    CHOOSE p \in (1..Len(xArgs.episode_series)) \X (1..MaxEpisodes) :
                        /\ p[2] <= Len(xArgs.episode_series[p[1]].episodes)
                        /\ xArgs.episode_series[p[1]].episodes[p[2]].jellyfin_episode.Id = id
        Before(p, q) == p[1] < q[1] \/ (p[1] = q[1] /\ p[2] < q[2])
    IN  /\ \A i, j \in 1..Len(attempts) :
              i < j =>
                  /\ Rank(attempts[i][1]) <= Rank(attempts[j][1])
                  /\ attempts[i][1] = attempts[j][1] =>
                        Before(Place(attempts[i][1], attempts[i][2]),
                               Place(attempts[j][1], attempts[j][2]))
        /\ \A i, j \in 1..Len(calls) :
              i < j => Rank(calls[i].op) <= Rank(calls[j].op)

\* a finished pass, not a dry run, that went through the episodes of two
\* series, then two movies, then a series
C21_Witness ==
    /\ xPc = "done"
    /\ ~xArgs.dry_run
    /\ AttemptCount("episode") > 1
    /\ AttemptCount("movie") > 1
    /\ AttemptCount("series") > 0
    /\ \E i, j \in 1..Len(calls) :
          i < j /\ calls[i].op = "delete_movie" /\ calls[j].op = "delete_series"

C26_EpisodeFailedOnlyIfDeleteIncomplete ==
    LET Issued(op) == Cardinality({i \in 1..Len(calls) : calls[i].op = op})
    IN  ~xArgs.dry_run =>
            /\ results.episodes_deleted = Issued("set_single_episode_monitored")
            /\ results.episodes_failed =
                   Issued("delete_item") - Issued("set_single_episode_monitored")

\* C27: execute_cleanup issues no movie deletion call and no series deletion
\* call for a submitted candidate whose in_qbittorrent flag is true.
C27_NoDeletionCallForTorrentMedia ==
    \A i \in 1..Len(calls) :
        /\ calls[i].op = "delete_movie" =>
              \A k \in 1..Len(xArgs.movies) :
                  xArgs.movies[k].radarr_item.id = calls[i].id
                      => ~xArgs.movies[k].in_qbittorrent
        /\ calls[i].op = "delete_series" =>
              \A k \in 1..Len(xArgs.series) :
                  xArgs.series[k].sonarr_item.id = calls[i].id
                      => ~xArgs.series[k].in_qbittorrent

(***************************************************************************)
(* Playback-server data and the protection filters                         *)
(***************************************************************************)
\* LastPlayedDate absent, None or the empty string
NoDate == <<>>

\* _parse_last_played returning None
NoTime == <<>>

\* The part of a timestamp string that strptime reads with
\* "%Y-%m-%dT%H:%M:%S" is one element of the string; "now" is
\* 2024-03-01T00:00:00 UTC.
WellFormedMains ==
    {"2024-01-01T00:00:00", "2024-01-31T00:00:00", "2024-02-20T00:00:00"}

\* whole days between the timestamp and now
AgeOfMain(main) ==
    CASE main = "2024-01-01T00:00:00" -> 60
      [] main = "2024-01-31T00:00:00" -> 30
      [] main = "2024-02-20T00:00:00" -> 10

IsDigit(c) == c \in {"0", "1", "2", "3", "4", "5", "6", "7", "8", "9"}

RECURSIVE RStripZ(_)
\* date_str.rstrip("Z")
RStripZ(date_str) ==
    IF date_str # <<>> /\ date_str[Len(date_str)] = "Z"
    THEN RStripZ(SubSeq(date_str, 1, Len(date_str) - 1))
    ELSE date_str

\* position of the first "." of trimmed, 0 when there is none
FirstDot(trimmed) ==
    IF \E i \in 1..Len(trimmed) : trimmed[i] = "."
    THEN CHOOSE i \in 1..Len(trimmed) :
             /\ trimmed[i] = "."
             /\ \A j \in 1..(i - 1) : trimmed[j] # "."
    ELSE 0

\* (fraction + "000000")[:6]
Pad6(fraction) ==
    SubSeq(fraction \o <<"0", "0", "0", "0", "0", "0">>, 1, 6)

RECURSIVE Micro(_, _)
\* the microseconds that %f reads from the first k digits of fraction
Micro(fraction, k) ==
    IF k = 0 THEN 0
    ELSE 10 * Micro(fraction, k - 1)
         + (CHOOSE v \in 0..9 :
                fraction[k] = <<"0", "1", "2", "3", "4", "5", "6", "7", "8", "9">>[v + 1])

\* datetime.strptime(main + "." + fraction, "%Y-%m-%dT%H:%M:%S.%f"): the
\* pair <<whole days before now, microseconds>>, NoTime when it raises
strptime(main, fraction) ==
    IF /\ Len(main) = 1
       /\ main[1] \in WellFormedMains
       /\ \A k \in 1..Len(fraction) : IsDigit(fraction[k])
    THEN <<AgeOfMain(main[1]), Micro(fraction, Len(fraction))>>
    ELSE NoTime

\* the try block, for the string with its trailing Z removed and the position
\* of its first ".": main, fraction = trimmed.split(".", 1), or trimmed, "0"
ParseTrimmed(trimmed, dot) ==
    IF dot = 0 THEN strptime(trimmed, Pad6(<<"0">>))
    ELSE strptime(SubSeq(trimmed, 1, dot - 1),
                  Pad6(SubSeq(trimmed, dot + 1, Len(trimmed))))

\* a watched item as one viewer's listing reports it
Item(id, name, year, favorite, last_played) ==
    [Id |-> id, Name |-> name, ProductionYear |-> year,
     UserData |-> [IsFavorite |-> favorite, LastPlayedDate |-> last_played]]

\* an episode of the watched series as one viewer's listing reports it
Episode(id, season, number, favorite, last_played) ==
    [Id |-> id, ParentIndexNumber |-> season, IndexNumber |-> number,
     UserData |-> [IsFavorite |-> favorite, LastPlayedDate |-> last_played]]

_is_favorite(item) == item.UserData.IsFavorite

\* the time of the last playback, NoTime for None
_parse_last_played(item) ==
    IF item.UserData.LastPlayedDate = NoDate THEN NoTime
    ELSE ParseTrimmed(RStripZ(item.UserData.LastPlayedDate),
                      FirstDot(RStripZ(item.UserData.LastPlayedDate)))

\* last_played <= cutoff, for times given as <<days before now, microseconds>>
OnOrBefore(last_played, cutoff) ==
    \/ last_played[1] > cutoff[1]
    \/ last_played[1] = cutoff[1] /\ last_played[2] <= cutoff[2]

\* if last_played and last_played <= cutoff, where
\* cutoff = now - timedelta(days=min_age_days) is <<min_age_days, 0>>
OldEnough(last_played, min_age_days) ==
    /\ last_played # NoTime
    /\ OnOrBefore(last_played, <<min_age_days, 0>>)

_filter_by_watch_age(items, min_age_days) ==
    SelectSeq(items, LAMBDA item :
        OldEnough(_parse_last_played(item), min_age_days))

\* the timestamp the playback server reports for a playback on that day
Stamp(main) == <<main, ".", "0", "0", "0", "0", "0", "0", "0", "Z">>

RECURSIVE Concat(_, _, _)
\* all_watched_*: the listings of the viewers, in viewer order
Concat(users, listing, i) ==
    IF i > Len(users) THEN <<>>
    ELSE listing[users[i]] \o Concat(users, listing, i + 1)

RECURSIVE UniqueFromFirst(_, _)
\* one record per Id, holding its first report
UniqueFromFirst(items, i) ==
    IF i > Len(items) THEN <<>>
    ELSE IF \E j \in 1..(i - 1) : items[j].Id = items[i].Id
         THEN UniqueFromFirst(items, i + 1)
         ELSE <<items[i]>> \o UniqueFromFirst(items, i + 1)

RECURSIVE UniqueFrom(_, _)
\* {item.get("Id"): item for item in items}.values(): one record per Id,
\* at the position of its first report, holding its last report
UniqueFrom(items, i) ==
    IF i > Len(items) THEN <<>>
    ELSE IF \E j \in 1..(i - 1) : items[j].Id = items[i].Id
         THEN UniqueFrom(items, i + 1)
         ELSE LET last == CHOOSE j \in i..Len(items) :
                             /\ items[j].Id = items[i].Id
                             /\ \A k \in (j + 1)..Len(items) : items[k].Id # items[i].Id
              IN  <<items[last]>> \o UniqueFrom(items, i + 1)

AgeFiltered(items, min_watch_age_days) ==
    IF min_watch_age_days # NoAge /\ min_watch_age_days >= 0
    THEN _filter_by_watch_age(items, min_watch_age_days)
    ELSE items

(***************************************************************************)
(* The torrent client's matcher (src/services/qbittorrent.py)              *)
(***************************************************************************)
\* the words the two tag patterns of normalize_title_for_matching remove, in
\* lower case; WEB-DL is matched as the words WEB and DL, which leaves the
\* same tokens
TagWords ==
    {<<"1", "0", "8", "0", "p">>, <<"7", "2", "0", "p">>,
     <<"2", "1", "6", "0", "p">>, <<"4", "k">>, <<"h", "d", "r">>,
     <<"x", "2", "6", "4">>, <<"x", "2", "6", "5">>, <<"h", "2", "6", "4">>,
     <<"h", "2", "6", "5">>, <<"h", "e", "v", "c">>,
     <<"b", "l", "u", "r", "a", "y">>, <<"w", "e", "b", "r", "i", "p">>,
     <<"b", "d", "r", "i", "p">>, <<"h", "d", "t", "c">>,
     <<"a", "m", "z", "n">>, <<"z", "e", "e", "5">>, <<"w", "e", "b">>,
     <<"d", "l">>, <<"d", "u", "a", "l">>, <<"h", "i", "n", "d", "i">>,
     <<"e", "n", "g", "l", "i", "s", "h">>, <<"a", "a", "c">>,
     <<"c", "i", "n", "e", "v", "o", "o", "d">>, <<"m", "k", "v">>,
     <<"m", "p", "4">>, <<"a", "v", "i">>, <<"p", "r", "o", "p", "e", "r">>,
     <<"r", "e", "p", "a", "c", "k">>,
     <<"i", "n", "t", "e", "r", "n", "a", "l">>,
     <<"l", "i", "m", "i", "t", "e", "d">>,
     <<"e", "x", "t", "e", "n", "d", "e", "d">>,
     <<"u", "n", "r", "a", "t", "e", "d">>,
     <<"d", "i", "r", "e", "c", "t", "o", "r", "s">>, <<"c", "u", "t">>,
     <<"f", "o", "r">>, <<"j", "u", "s", "t", "i", "c", "e">>}

RECURSIVE WordRun(_, _)
\* number of \w characters of t starting at position i
WordRun(t, i) ==
    IF i <= Len(t) /\ IsWord(t[i]) THEN 1 + WordRun(t, i + 1) ELSE 0

RECURSIVE StripWords(_, _)
\* re.sub(r"\b\d{4}\b", "", title) and the two substitutions of tag words,
\* from position i on, which starts a word or is outside every word: a word
\* of four digits or a tag word is removed, what surrounds it is kept
StripWords(t, i) ==
    IF i > Len(t) THEN <<>>
    ELSE IF ~IsWord(t[i]) THEN <<t[i]>> \o StripWords(t, i + 1)
    ELSE IF \/ WordRun(t, i) = 4 /\ \A k \in i..(i + 3) : IsDigit(t[k])
            \/ LowerAll(SubSeq(t, i, i + WordRun(t, i) - 1)) \in TagWords
         THEN StripWords(t, i + WordRun(t, i))
         ELSE SubSeq(t, i, i + WordRun(t, i) - 1)
              \o StripWords(t, i + WordRun(t, i))

RECURSIVE StripGroup(_, _, _, _)
\* re.sub(r"\[.*?\]", "", title) and re.sub(r"\(.*?\)", "", title), from
\* position i on: an opening character is removed together with everything
\* up to the next closing character, when there is one
StripGroup(t, open, close, i) ==
    IF i > Len(t) THEN <<>>
    ELSE IF t[i] = open /\ \E j \in (i + 1)..Len(t) : t[j] = close
         THEN StripGroup(t, open, close,
                  1 + CHOOSE j \in (i + 1)..Len(t) :
                          /\ t[j] = close
                          /\ \A k \in (i + 1)..(j - 1) : t[k] # close)
         ELSE <<t[i]>> \o StripGroup(t, open, close, i + 1)

\* qbittorrent.normalize_title_for_matching(title)
normalize_title_for_matching(title) ==
    LowerAll(CollapseFrom(ReplaceSpecial(
        StripGroup(
            StripGroup(
                StripWords([i \in 1..Len(title) |->
                               IF title[i] = "." THEN " " ELSE title[i]], 1),
                "[", "]", 1),
            "(", ")", 1)), 1))

\* set(str.split())
Tokens(str) ==
    {SubSeq(str, p[1], p[2]) :
        p \in {q \in (1..Len(str)) \X (1..Len(str)) :
                 /\ q[1] <= q[2]
                 /\ \A k \in q[1]..q[2] : ~IsSpace(str[k])
                 /\ q[1] = 1 \/ IsSpace(str[q[1] - 1])
                 /\ q[2] = Len(str) \/ IsSpace(str[q[2] + 1])}}

\* qbittorrent._calculate_similarity(str1, str2), a score with no rounding
\* error: a quotient of two small integers
_calculate_similarity(str1, str2) ==
    IF Tokens(str1) = {} \/ Tokens(str2) = {} THEN Zero
    ELSE <<Cardinality(Tokens(str1) \cap Tokens(str2)),
           Cardinality(Tokens(str1) \cup Tokens(str2)), 0>>

\* if media_year: if str(media_year) in torrent_name
YearInName(media_year, torrent_name) ==
    LET RECURSIVE Str(_)
        Str(n) == IF n < 10
                  THEN <<<<"0", "1", "2", "3", "4", "5", "6", "7", "8", "9">>[n + 1]>>
                  ELSE Str(n \div 10) \o Str(n % 10)
    IN  /\ media_year # NoYear
        /\ \E i \in 1..Len(torrent_name) :
              /\ i + Len(Str(media_year)) - 1 <= Len(torrent_name)
              /\ SubSeq(torrent_name, i, i + Len(Str(media_year)) - 1)
                     = Str(media_year)

\* total_score without the year bonus
TorrentScoreNoBonus(similarity, year_bonus) == similarity

\* total_score = similarity + year_bonus, with year_bonus 0.2 or 0.0; the
\* double of the sum lies on the same side of every other score as the exact
\* sum does
TorrentScore(similarity, year_bonus) ==
    IF year_bonus
    THEN <<5 * similarity[1] + similarity[2], 5 * similarity[2], 0>>
    ELSE similarity

RECURSIVE SortedByScore(_)
\* matches.sort(key=lambda x: x["similarity_score"], reverse=True): a stable
\* sort, the first of the best matches comes first
SortedByScore(matches) ==
    IF matches = <<>> THEN <<>>
    ELSE LET k == CHOOSE i \in 1..Len(matches) :
                      /\ \A j \in 1..Len(matches) :
                            ScoreGE(matches[i].similarity_score,
                                    matches[j].similarity_score)
                      /\ \A j \in 1..(i - 1) :
                            ScoreLT(matches[j].similarity_score,
                                    matches[i].similarity_score)
         IN  <<matches[k]>>
             \o SortedByScore(SubSeq(matches, 1, k - 1)
                              \o SubSeq(matches, k + 1, Len(matches)))

\* qbittorrent.find_matching_torrents(media_title, media_year); torrents
\* holds the names of the completed torrents, in the order the client lists
\* them
find_matching_torrents(media_title, media_year) ==
    SortedByScore(SelectSeq(
        [k \in 1..Len(torrents) |->
            [torrent |-> torrents[k],
             similarity_score |->
                 TorrentScore(
                     _calculate_similarity(
                         normalize_title_for_matching(media_title),
                         normalize_title_for_matching(torrents[k])),
                     YearInName(media_year, torrents[k]))]],
        LAMBDA m : ScoreGE(m.similarity_score, <<3, 5, 0>>)))

\* qbittorrent.is_media_in_torrents(title, year), min_similarity = 0.6
is_media_in_torrents(title, year) ==
    IF find_matching_torrents(title, year) # <<>>
    THEN ScoreGE(find_matching_torrents(title, year)[1].similarity_score,
                 <<3, 5, 0>>)
    ELSE FALSE

InTorrents(title, year) ==
    IF qbittorrent THEN is_media_in_torrents(title, year) ELSE FALSE

(***************************************************************************)
(* Series sub-item protection and the episode cleanup builder              *)
(***************************************************************************)
\* jellyfin.get_watched_episodes_for_series(user_id, series_id)
get_watched_episodes_for_series(user, series_id) ==
    IF series_id \in DOMAIN jf.episodes THEN jf.episodes[series_id][user].watched
    ELSE <<>>

\* jellyfin.get_favorite_episodes_for_series(user_id, series_id)
get_favorite_episodes_for_series(user, series_id) ==
    IF series_id \in DOMAIN jf.episodes THEN jf.episodes[series_id][user].favorites
    ELSE <<>>

\* jellyfin.get_favorite_seasons_for_series(user_id, series_id): the
\* IndexNumber of each season returned
get_favorite_seasons_for_series(user, series_id) ==
    IF series_id \in DOMAIN jf.seasons THEN jf.seasons[series_id][user]
    ELSE {}

\* a viewer whose lookup raises is skipped; any other viewer's favorite
\* episode or season protects the series
_series_has_favorite_content(users, jellyfin_series) ==
    \E i \in 1..Len(users) :
        /\ <<"favorites", users[i]>> \notin faults
        /\ \/ get_favorite_episodes_for_series(users[i], jellyfin_series.Id) # <<>>
           \/ get_favorite_seasons_for_series(users[i], jellyfin_series.Id) # {}

RECURSIVE CollectEpisodes(_, _, _, _)
\* the inner loop over one viewer's watched episodes
CollectEpisodes(watched, k, by_id, favorite_season_numbers) ==
    IF k > Len(watched) THEN by_id
    ELSE IF \/ _is_favorite(watched[k])
            \/ watched[k].ParentIndexNumber \in favorite_season_numbers
         THEN CollectEpisodes(watched, k + 1, by_id, favorite_season_numbers)
         \* episodes_by_id[episode.get("Id")] = episode
         ELSE CollectEpisodes(
                  watched, k + 1,
                  IF \E j \in 1..Len(by_id) : by_id[j].Id = watched[k].Id
                  THEN [j \in 1..Len(by_id) |->
                          IF by_id[j].Id = watched[k].Id THEN watched[k] ELSE by_id[j]]
                  ELSE Append(by_id, watched[k]),
                  favorite_season_numbers)

RECURSIVE CollectUsers(_, _, _, _, _)
\* the loop over the viewers, in order
CollectUsers(users, i, series_id, by_id, favorite_season_numbers) ==
    IF i > Len(users) THEN by_id
    ELSE IF <<"episodes", users[i]>> \in faults
         THEN CollectUsers(users, i + 1, series_id, by_id, favorite_season_numbers)
         ELSE LET seasons == favorite_season_numbers
                               \cup get_favorite_seasons_for_series(users[i], series_id)
              IN  CollectUsers(users, i + 1, series_id,
                               CollectEpisodes(
                                   get_watched_episodes_for_series(users[i], series_id),
                                   1, by_id, seasons),
                               seasons)

\* lines 214-225: the age filter over the collected episodes
EpisodesAgeFiltered(episodes, min_watch_age_days) ==
    IF min_watch_age_days # NoAge /\ min_watch_age_days >= 0 /\ episodes # <<>>
    THEN _filter_by_watch_age(episodes, min_watch_age_days)
    ELSE episodes

_collect_watched_episodes_for_series(users, jellyfin_series, min_watch_age_days) ==
    EpisodesAgeFiltered(CollectUsers(users, 1, jellyfin_series.Id, <<>>, {}),
                        min_watch_age_days)

\* sonarr.get_episodes(series_id)
get_episodes(series_id) ==
    IF series_id \in DOMAIN catalog.episodes THEN catalog.episodes[series_id]
    ELSE <<>>

\* ParentIndexNumber or IndexNumber absent (None)
NoNumber == -1

NumbersMissingOrZero(season, number) ==
    season \in {NoNumber, 0} \/ number \in {NoNumber, 0}

\* if season is None or number is None
NumbersMissing(season, number) == season = NoNumber \/ number = NoNumber

RECURSIVE MatchEpisodes(_, _, _)
\* the loop over the collected episodes; j is the position of
\* sonarr_episode_map.get((season, number)), the last catalog episode with
\* that key, 0 when there is none
MatchEpisodes(jellyfin_episodes, sonarr_episodes, k) ==
    IF k > Len(jellyfin_episodes) THEN <<>>
    ELSE LET episode == jellyfin_episodes[k]
             hits == {h \in 1..Len(sonarr_episodes) :
                         /\ sonarr_episodes[h].seasonNumber = episode.ParentIndexNumber
                         /\ sonarr_episodes[h].episodeNumber = episode.IndexNumber}
             j == IF hits = {} THEN 0 ELSE CHOOSE h \in hits : \A g \in hits : g <= h
         IN  IF NumbersMissing(episode.ParentIndexNumber, episode.IndexNumber) \/ j = 0
             THEN MatchEpisodes(jellyfin_episodes, sonarr_episodes, k + 1)
             ELSE <<[jellyfin_episode |-> episode,
                     sonarr_episode |-> sonarr_episodes[j],
                     season_number |-> episode.ParentIndexNumber,
                     episode_number |-> episode.IndexNumber]>>
                  \o MatchEpisodes(jellyfin_episodes, sonarr_episodes, k + 1)

\* the entry built from the matched episodes, None when there is none
EntryOf(jellyfin_series, sonarr_series, similarity_score, in_qbittorrent, matched_episodes) ==
    IF matched_episodes = <<>> THEN <<>>
    ELSE <<[jellyfin_series |-> jellyfin_series,
            sonarr_series |-> sonarr_series,
            similarity_score |-> similarity_score,
            episodes |-> matched_episodes,
            in_qbittorrent |-> in_qbittorrent]>>

\* no collected episode: None, before the catalog is asked for its episodes;
\* None as well when sonarr.get_episodes raises
EntryFor(jellyfin_series, sonarr_series, similarity_score, in_qbittorrent, jellyfin_episodes) ==
    IF jellyfin_episodes = <<>> THEN <<>>
    ELSE IF <<"catalog_episodes", "sonarr">> \in faults THEN <<>>
    ELSE EntryOf(jellyfin_series, sonarr_series, similarity_score, in_qbittorrent,
                 MatchEpisodes(jellyfin_episodes, get_episodes(sonarr_series.id), 1))

\* the list holding the entry, or the empty list for None
_build_episode_cleanup_entry(users, jellyfin_series, sonarr_series, similarity_score, min_watch_age_days, in_qbittorrent) ==
    IF ~sonarr THEN <<>>
    ELSE EntryFor(jellyfin_series, sonarr_series, similarity_score, in_qbittorrent,
                  _collect_watched_episodes_for_series(users, jellyfin_series,
                                                       min_watch_age_days))

\* sonarr.is_series_fully_watched(series_id)
is_series_fully_watched(series_id) ==
    LET episodes == get_episodes(series_id)
        monitored == {j \in 1..Len(episodes) : episodes[j].monitored}
    IN  monitored # {} /\ \A j \in monitored : episodes[j].hasFile

(***************************************************************************)
(* get_cleanup_candidates                                                  *)
(***************************************************************************)
\* if radarr_match: cleanup_movies.append(...), with the entry appended
MovieAppend(jellyfin_movie, radarr_movies, radarr_match, rest) ==
    IF radarr_match = 0 THEN rest
    ELSE <<[jellyfin_item |-> jellyfin_movie,
            radarr_item |-> radarr_movies[radarr_match],
            similarity_score |-> Similarity(jellyfin_movie.Name,
                                            radarr_movies[radarr_match].title),
            in_qbittorrent |-> InTorrents(jellyfin_movie.Name,
                                          jellyfin_movie.ProductionYear)]>> \o rest

RECURSIVE MovieCandidatesFrom(_, _, _)
\* the loop over the unique movies when the movie manager is present
MovieCandidatesFrom(unique_movies, radarr_movies, i) ==
    IF i > Len(unique_movies) THEN <<>>
    ELSE MovieAppend(unique_movies[i], radarr_movies,
                     find_matching_movie(unique_movies[i], radarr_movies,
                                         DefaultThreshold),
                     MovieCandidatesFrom(unique_movies, radarr_movies, i + 1))

\* series_entry for a watched series matched with a catalog entry
SeriesEntry(users, jellyfin_show, sonarr_match) ==
    [jellyfin_item |-> jellyfin_show,
     sonarr_item |-> sonarr_match,
     similarity_score |-> Similarity(jellyfin_show.Name, sonarr_match.title),
     fully_downloaded |-> is_series_fully_watched(sonarr_match.id),
     in_qbittorrent |-> InTorrents(jellyfin_show.Name, jellyfin_show.ProductionYear),
     favorite_episodes |-> _series_has_favorite_content(users, jellyfin_show)]

EpisodeEntryWantedAnyway(collect_episode_data, in_qbittorrent) ==
    collect_episode_data

\* the test that guards the construction of an episode entry
EpisodeEntryWanted(collect_episode_data, in_qbittorrent) ==
    collect_episode_data /\ ~in_qbittorrent

\* if collect_episode_data and not in_qbittorrent: build the episode entry
\* and append it when it is not None
EpisodeAppend(users, series_entry, min_watch_age_days, collect_episode_data, rest) ==
    IF EpisodeEntryWanted(collect_episode_data, series_entry.in_qbittorrent)
    THEN _build_episode_cleanup_entry(
             users, series_entry.jellyfin_item, series_entry.sonarr_item,
             series_entry.similarity_score, min_watch_age_days,
             series_entry.in_qbittorrent) \o rest
    ELSE rest

\* if sonarr_match: what the iteration appends to cleanup_series:
\* if has_favorite_episodes: ... else: cleanup_series.append(series_entry)
SeriesMatched(users, jellyfin_show, sonarr_series, sonarr_match, rest) ==
    IF sonarr_match = 0 THEN rest
    ELSE IF _series_has_favorite_content(users, jellyfin_show) THEN rest
    ELSE <<SeriesEntry(users, jellyfin_show, sonarr_series[sonarr_match])>> \o rest

\* if sonarr_match: what the iteration appends to episode_cleanup
EpisodeMatched(users, jellyfin_show, sonarr_series, sonarr_match, min_watch_age_days, collect_episode_data, rest) ==
    IF sonarr_match = 0 THEN rest
    ELSE EpisodeAppend(users,
                       SeriesEntry(users, jellyfin_show, sonarr_series[sonarr_match]),
                       min_watch_age_days, collect_episode_data, rest)

RECURSIVE SeriesCandidatesFrom(_, _, _, _)
\* the loop over the unique series: what it appends to cleanup_series
SeriesCandidatesFrom(users, unique_series, sonarr_series, i) ==
    IF i > Len(unique_series) THEN <<>>
    ELSE SeriesMatched(users, unique_series[i], sonarr_series,
                       find_matching_series(unique_series[i], sonarr_series,
                                            DefaultThreshold),
                       SeriesCandidatesFrom(users, unique_series, sonarr_series, i + 1))

RECURSIVE EpisodeCleanupFrom(_, _, _, _, _, _)
\* the loop over the unique series: what it appends to episode_cleanup
EpisodeCleanupFrom(users, unique_series, sonarr_series, i, min_watch_age_days, collect_episode_data) ==
    IF i > Len(unique_series) THEN <<>>
    ELSE EpisodeMatched(users, unique_series[i], sonarr_series,
                        find_matching_series(unique_series[i], sonarr_series,
                                             DefaultThreshold),
                        min_watch_age_days, collect_episode_data,
                        EpisodeCleanupFrom(users, unique_series, sonarr_series, i + 1,
                                           min_watch_age_days, collect_episode_data))

\* The body of the try block (lines 337-501) yields the three lists as they
\* stand when it is left and, fourth, whether it was left through the except
\* clause of line 502: the watched-items listing of a user (lines 351-352),
\* radarr.get_movies() (line 408) or sonarr.get_series() (line 440) raised.

\* lines 437-495: the series step, after the movie step
MatchSeriesStep(users, unique_series, min_watch_age_days, collect_episode_data, cleanup_movies) ==
    IF ~sonarr THEN <<cleanup_movies, <<>>, <<>>, FALSE>>
    ELSE IF <<"series", "sonarr">> \in faults THEN <<cleanup_movies, <<>>, <<>>, TRUE>>
    ELSE <<cleanup_movies,
           SeriesCandidatesFrom(users, unique_series, catalog.series, 1),
           EpisodeCleanupFrom(users, unique_series, catalog.series, 1,
                              min_watch_age_days, collect_episode_data),
           FALSE>>

\* the matching steps over the unique watched movies and series
MatchUnique(users, unique_movies, unique_series, min_watch_age_days, collect_episode_data) ==
    IF radarr /\ <<"movies", "radarr">> \in faults THEN <<<<>>, <<>>, <<>>, TRUE>>
    ELSE MatchSeriesStep(users, unique_series, min_watch_age_days,
                         collect_episode_data,
                         IF radarr
                         THEN MovieCandidatesFrom(unique_movies, catalog.movies, 1)
                         ELSE <<>>)

\* lines 337-503: the body of the try block and its except clause
TryBody(min_watch_age_days, collect_episode_data) ==
    IF \E i \in 1..Len(jf.users) : <<"watched", jf.users[i]>> \in faults
    THEN <<<<>>, <<>>, <<>>, TRUE>>
    ELSE MatchUnique(
             jf.users,
             AgeFiltered(SelectSeq(UniqueFrom(Concat(jf.users, jf.movies, 1), 1),
                                   LAMBDA item : ~_is_favorite(item)),
                         min_watch_age_days),
             AgeFiltered(SelectSeq(UniqueFrom(Concat(jf.users, jf.series, 1), 1),
                                   LAMBDA item : ~_is_favorite(item)),
                         min_watch_age_days),
             min_watch_age_days, collect_episode_data)

\* the tuple (cleanup_movies, cleanup_series, episode_cleanup) returned
get_cleanup_candidates(min_watch_age_days, collect_episode_data) ==
    SubSeq(TryBody(min_watch_age_days, collect_episode_data), 1, 3)

(***************************************************************************)
(* handle_cleanup                                                          *)
(***************************************************************************)
\* lines 273-278: the similarity-threshold filter
ThresholdFilter(candidates, similarity_threshold) ==
    SelectSeq(candidates,
              LAMBDA c : ScoreGE(c.similarity_score, similarity_threshold))

\* lines 283-287: the safety filter
SafetyFilter(candidates) ==
    IF qbittorrent THEN SelectSeq(candidates, LAMBDA c : ~c.in_qbittorrent)
    ELSE candidates

(***************************************************************************)
(* The worlds a pass is run against                                        *)
(***************************************************************************)
Viewers == {"u1", "u2"}

UserOrders == {<<"u1">>, <<"u1", "u2">>, <<"u2", "u1">>}

\* one viewer's listing of the item, of kind "none" (absent), "plain"
\* (watched) or "favorite" (watched and favorite)
Listing(id, name, year, kind) ==
    IF kind = "none" THEN <<>>
    ELSE <<Item(id, name, year, kind = "favorite", Stamp("2024-01-01T00:00:00"))>>

CatalogEntry(id, title, year) == [id |-> id, title |-> title, year |-> year]

Catalogs ==
    {<<>>,
     <<CatalogEntry(7, Matrix, 2002)>>,
     <<CatalogEntry(8, Up, NoYear), CatalogEntry(7, <<"M", "a", "t", "r", "i", "x", " ", "2">>, 2002)>>}

CatalogEpisode(id, season, number) ==
    [id |-> id, seasonNumber |-> season, episodeNumber |-> number,
     monitored |-> TRUE, hasFile |-> TRUE]

NoListing == [u \in Viewers |-> <<>>]

NoEpisodes ==
    [s \in {"s1"} |-> [u \in Viewers |-> [watched |-> <<>>, favorites |-> <<>>]]]

NoSeasons == [s \in {"s1"} |-> [u \in Viewers |-> {}]]

\* the listings of one viewer for the episodes e1 (S01E01) and e2 (S02E01)
EpisodeListings(st1, st2) ==
    LET IsWatched(state) == state \in {"watched", "watched_favorite"}
        IsFavorited(state) == state \in {"favorite", "watched_favorite"}
    IN
    [watched |->
        (IF IsWatched(st1) THEN <<Episode("e1", 1, 1, IsFavorited(st1), Stamp("2024-01-01T00:00:00"))>> ELSE <<>>)
        \o (IF IsWatched(st2) THEN <<Episode("e2", 2, 1, IsFavorited(st2), Stamp("2024-02-20T00:00:00"))>> ELSE <<>>),
     favorites |->
        (IF IsFavorited(st1) THEN <<Episode("e1", 1, 1, TRUE, Stamp("2024-01-01T00:00:00"))>> ELSE <<>>)
        \o (IF IsFavorited(st2) THEN <<Episode("e2", 2, 1, TRUE, Stamp("2024-02-20T00:00:00"))>> ELSE <<>>)]

\* the torrent client, when connected, may hold the watched title
TorrentChoice ==
    /\ qbittorrent \in BOOLEAN
    /\ torrents \in (IF qbittorrent THEN {<<>>, <<TheMatrix>>} ELSE {<<>>})

\* a watched movie reported by the viewers in every combination
MovieWorld ==
    /\ radarr \in BOOLEAN
    /\ sonarr \in BOOLEAN
    /\ TorrentChoice
    /\ \E users \in UserOrders, kinds \in [Viewers -> {"none", "plain", "favorite"}] :
          jf = [users |-> users,
                movies |-> [u \in Viewers |->
                              Listing("m1", TheMatrix, 2002, kinds[u])],
                series |-> NoListing,
                episodes |-> NoEpisodes,
                seasons |-> NoSeasons]
    /\ \E movies \in Catalogs :
          catalog = [movies |-> movies, series |-> <<>>, episodes |-> <<>>]
    /\ faults \in {{}, {<<"watched", "u1">>}, {<<"movies", "radarr">>}}

\* a watched series reported by the viewers in every combination
SeriesWorld ==
    /\ radarr \in BOOLEAN
    /\ sonarr \in BOOLEAN
    /\ TorrentChoice
    /\ \E users \in UserOrders, kinds \in [Viewers -> {"none", "plain", "favorite"}] :
          jf = [users |-> users,
                movies |-> NoListing,
                series |-> [u \in Viewers |->
                              Listing("s1", TheMatrix, 2002, kinds[u])],
                episodes |-> NoEpisodes,
                seasons |-> NoSeasons]
    /\ \E series \in Catalogs :
          catalog = [movies |-> <<>>, series |-> series,
                     episodes |-> [id \in {7} |-> <<CatalogEpisode(71, 1, 1)>>]]
    /\ faults \in {{}, {<<"watched", "u2">>}, {<<"series", "sonarr">>}}

\* a watched, matched series whose episodes and seasons the viewers have
\* watched and favorited in every combination; one lookup may raise
EpisodeWorld ==
    /\ radarr = FALSE
    /\ sonarr = TRUE
    /\ TorrentChoice
    /\ \E users \in UserOrders,
          \* what each viewer did with episode e1
          st1 \in [Viewers -> {"none", "watched", "favorite", "watched_favorite"}],
          season1 \in [Viewers -> BOOLEAN] :
          jf = [users |-> users,
                movies |-> NoListing,
                series |-> [u \in Viewers |->
                              Listing("s1", TheMatrix, 2002, "plain")],
                episodes |-> [s \in {"s1"} |->
                                [u \in Viewers |->
                                   EpisodeListings(st1[u],
                                       IF u = "u1" THEN "watched" ELSE "none")]],
                seasons |-> [s \in {"s1"} |->
                               [u \in Viewers |-> IF season1[u] THEN {1} ELSE {}]]]
    /\ catalog = [movies |-> <<>>,
                  series |-> <<CatalogEntry(7, Matrix, 2002)>>,
                  episodes |-> [id \in {7} |->
                                  <<CatalogEpisode(71, 1, 1), CatalogEpisode(72, 2, 1)>>]]
    /\ faults \in {{}} \cup {{<<kind, u>>} : kind \in {"favorites", "episodes"},
                                              u \in Viewers}

\* a watched movie that the viewers report with records of their own, u2
\* having played it 60 or 10 days ago, next to which u1 may have watched a
\* second movie, 'Matrix', that matches the same catalog entry; the catalog
\* holds 'Matrix' or 'Matrix 999'
OverlapWorld ==
    /\ radarr = TRUE
    /\ sonarr = FALSE
    /\ qbittorrent = FALSE
    /\ torrents = <<>>
    /\ \E users \in UserOrders, kinds \in [Viewers -> {"none", "plain", "favorite"}],
          recent \in BOOLEAN, second \in BOOLEAN :
          jf = [users |-> users,
                movies |-> [u \in Viewers |->
                              (IF kinds[u] = "none" THEN <<>>
                               ELSE <<Item("m1", TheMatrix, 2002, kinds[u] = "favorite",
                                           Stamp(IF u = "u2" /\ recent
                                                 THEN "2024-02-20T00:00:00"
                                                 ELSE "2024-01-01T00:00:00"))>>)
                              \o (IF u = "u1" /\ second
                                  THEN Listing("m2", Matrix, 2002, "plain")
                                  ELSE <<>>)],
                series |-> NoListing,
                episodes |-> NoEpisodes,
                seasons |-> NoSeasons]
    /\ \E title \in {Matrix, <<"M", "a", "t", "r", "i", "x", " ", "9", "9", "9">>} :
          catalog = [movies |-> <<CatalogEntry(7, title, 2002)>>,
                     series |-> <<>>, episodes |-> <<>>]
    /\ faults = {}

CandInit ==
    /\ MatchIdle
    /\ ExecIdle
    /\ CandIdle
    /\ PureIdle
    /\ MovieWorld \/ SeriesWorld \/ EpisodeWorld \/ OverlapWorld

\* the three lists of a pass, as returned
Returned(returned) ==
    /\ cMovies' = returned[1]
    /\ cSeries' = returned[2]
    /\ cEpisodes' = returned[3]
    /\ cPc' = "returned"

\* a direct call of get_cleanup_candidates
GetCleanupCandidates ==
    /\ cPc = "idle"
    /\ hExit = NoExit
    /\ \E min_watch_age_days \in {NoAge, 30}, collect_episode_data \in BOOLEAN :
          /\ cArgs' = [min_watch_age_days |-> min_watch_age_days,
                       collect_episode_data |-> collect_episode_data]
          /\ Returned(get_cleanup_candidates(min_watch_age_days,
                                             collect_episode_data))
    /\ UNCHANGED <<matchVars, svcVars, pureVars, execVars, worldVars, hExit>>

\* lines 304-401: nothing left returns 0, otherwise execute_cleanup is called
\* with the filtered lists
HandleFiltered(movies, series) ==
    IF movies = <<>> /\ series = <<>>
    THEN /\ hExit' = 0
         /\ UNCHANGED execVars
    ELSE /\ hExit' = NoExit
         /\ \E delete \in BOOLEAN, keep_files \in BOOLEAN, add_exclusion \in BOOLEAN :
               xArgs' = [movies |-> movies,
                         series |-> series,
                         episode_series |-> <<>>,
                         delete_files |-> ~keep_files,
                         add_exclusion |-> add_exclusion,
                         dry_run |-> ~delete,
                         delete_episodes |-> FALSE]
         /\ xPc' = "episodes"
         /\ results' = EmptyResults
         /\ UNCHANGED <<xI, xJ, calls, attempts>>

\* line 268: movies, series = <returned>; unpacking a tuple of any other
\* length raises ValueError, which the handler at line 403 turns into 1
HandleReturned(returned) ==
    /\ Returned(returned)
    /\ IF Len(returned) # 2
       THEN /\ hExit' = 1
            /\ UNCHANGED execVars
       ELSE HandleFiltered(
                SafetyFilter(ThresholdFilter(returned[1], DefaultThreshold)),
                SafetyFilter(ThresholdFilter(returned[2], DefaultThreshold)))

\* the cleanup command, from the connection checks to its return or to its
\* call of execute_cleanup
HandleCleanup ==
    /\ cPc = "idle"
    /\ hExit = NoExit
    /\ \E watched_before_days \in {NoAge, 30} :
          IF ~radarr /\ ~sonarr
          THEN /\ hExit' = 1
               /\ UNCHANGED <<cPc, cArgs, cMovies, cSeries, cEpisodes, execVars>>
          ELSE /\ cArgs' = [min_watch_age_days |-> watched_before_days,
                            collect_episode_data |-> FALSE]
               /\ HandleReturned(get_cleanup_candidates(watched_before_days, FALSE))
    /\ UNCHANGED <<matchVars, svcVars, pureVars, worldVars>>

CandNext == GetCleanupCandidates \/ HandleCleanup

SpecCand == CandInit /\ [][CandNext]_vars

(***************************************************************************)
(* Properties of the candidate pass                                        *)
(***************************************************************************)
\* some listed viewer reports the item with IsFavorite = true
ReportedFavorite(listing, id) ==
    \E i \in 1..Len(jf.users) :
        \E k \in 1..Len(listing[jf.users[i]]) :
            /\ listing[jf.users[i]][k].Id = id
            /\ listing[jf.users[i]][k].UserData.IsFavorite

\* C2: a watched movie or series that at least one viewer reports with
\* IsFavorite = true never appears in the movie or series candidate lists
\* returned by get_cleanup_candidates, whatever the order of the viewers and
\* whatever the other viewers report for the same Id.
C2_FavoriteNeverCandidate ==
    cPc = "returned" =>
        /\ \A k \in 1..Len(cMovies) :
              ~ReportedFavorite(jf.movies, cMovies[k].jellyfin_item.Id)
        /\ \A k \in 1..Len(cSeries) :
              ~ReportedFavorite(jf.series, cSeries[k].jellyfin_item.Id)

\* C3: a series that passed title matching and in which any viewer has
\* favorited an episode or a season is not in the whole-series candidate
\* list returned by get_cleanup_candidates.
C3_FavoriteContentNeverWholeSeries ==
    LET \* some listed viewer has favorited an episode or a season of the series
        AnyViewerFavoritedContent(series_id) ==
            \E i \in 1..Len(jf.users) :
                \/ jf.episodes[series_id][jf.users[i]].favorites # <<>>
                \/ jf.seasons[series_id][jf.users[i]] # {}
    IN  cPc = "returned" =>
            \A k \in 1..Len(cSeries) :
                ~AnyViewerFavoritedContent(cSeries[k].jellyfin_item.Id)

\* C25: when the favorite-episode or favorite-season lookup raised for some
\* viewer while a matched series was evaluated, that series is not in the
\* whole-series candidate list returned by get_cleanup_candidates.  A series
\* in that list was evaluated for every listed viewer, so the lookup raised
\* for it exactly when a listed viewer's lookup is faulty.
C25_FaultedFavoriteLookupProtects ==
    cPc = "returned" =>
        \A k \in 1..Len(cSeries) :
            \A i \in 1..Len(jf.users) : <<"favorites", jf.users[i]>> \notin faults

\* C4: the episodes collected for a series, and hence the episode candidates
\* of every episode entry, contain no episode that any viewer reports as
\* favorite and no episode whose season any viewer has favorited, whatever
\* the order of the viewers.
C4_NoFavoritedEpisodeCollected ==
    LET \* some listed viewer reports the episode as favorite
        EpisodeFavoritedByAny(series_id, episode_id) ==
            \E i \in 1..Len(jf.users) :
                LET lists == jf.episodes[series_id][jf.users[i]]
                IN  \/ \E k \in 1..Len(lists.favorites) :
                          lists.favorites[k].Id = episode_id
                    \/ \E k \in 1..Len(lists.watched) :
                          /\ lists.watched[k].Id = episode_id
                          /\ lists.watched[k].UserData.IsFavorite
        \* some listed viewer has favorited the season
        SeasonFavoritedByAny(series_id, season) ==
            \E i \in 1..Len(jf.users) : season \in jf.seasons[series_id][jf.users[i]]
    IN  cPc = "returned" =>
            \A k \in 1..Len(cEpisodes) :
                \A e \in 1..Len(cEpisodes[k].episodes) :
                    LET series_id == cEpisodes[k].jellyfin_series.Id
                        episode == cEpisodes[k].episodes[e].jellyfin_episode
                    IN  /\ ~EpisodeFavoritedByAny(series_id, episode.Id)
                        /\ ~SeasonFavoritedByAny(series_id, episode.ParentIndexNumber)

\* C20: with at least one reachable manager handle_cleanup gets past the
\* candidate pass to filtering and execution, and its exit code is 0 exactly
\* when the execution result holds no error strings (in particular when there
\* was nothing to delete), non-zero otherwise.
C20_ExitZeroIffNoErrors ==
    (hExit # NoExit /\ (radarr \/ sonarr)) =>
        (hExit = 0 <=> results.errors = <<>>)

\* C19: the step of an absent library manager is skipped, not failed: with
\* no movie manager get_cleanup_candidates returns no movie candidates, with
\* no series manager no series and no episode candidates, and handle_cleanup
\* ends with a non-zero code at this stage only when both managers are
\* unavailable.
C19_AbsentManagerSkippedNotFailed ==
    /\ (cPc = "returned" /\ ~radarr) => cMovies = <<>>
    /\ (cPc = "returned" /\ ~sonarr) => (cSeries = <<>> /\ cEpisodes = <<>>)
    /\ (hExit # NoExit /\ hExit # 0) => (~radarr /\ ~sonarr)

\* C18: a bulk listing call that raises during get_cleanup_candidates
\* (listing a user's watched items, fetching the movie or the series catalog)
\* is propagated to the caller: the pass does not return normally with lists
\* that look like those of a pass that found nothing.
C18_BulkListingFailurePropagates ==
    cPc = "returned" =>
        ~TryBody(cArgs.min_watch_age_days, cArgs.collect_episode_data)[4]

\* C17: in the output of get_cleanup_candidates an episode-cleanup entry
\* exists for a series only if episode data was requested and the series is
\* not in the whole-series candidate list of the same pass.
C17_EpisodeEntryOnlyIfNotWholeSeries ==
    cPc = "returned" =>
        \A k \in 1..Len(cEpisodes) :
            /\ cArgs.collect_episode_data
            /\ \A j \in 1..Len(cSeries) :
                  cSeries[j].jellyfin_item.Id # cEpisodes[k].jellyfin_series.Id

\* C28: every movie candidate and every series candidate returned by
\* get_cleanup_candidates carries a similarity_score of at least 0.8, the
\* threshold of the matcher, so that the similarity filter of handle_cleanup
\* at its default 0.8 removes none of them.
C28_CandidateScoreAtLeastThreshold ==
    cPc = "returned" =>
        /\ \A k \in 1..Len(cMovies) :
              ScoreGE(cMovies[k].similarity_score, DefaultThreshold)
        /\ \A k \in 1..Len(cSeries) :
              ScoreGE(cSeries[k].similarity_score, DefaultThreshold)
        /\ ThresholdFilter(cMovies, DefaultThreshold) = cMovies
        /\ ThresholdFilter(cSeries, DefaultThreshold) = cSeries

\* C29: in the lists returned by get_cleanup_candidates no watched item Id
\* occurs in two candidates and no catalog entry occurs in two candidates, so
\* that a pass issues at most one deletion call per catalog entry.
C29_OneCandidatePerItemAndEntry ==
    cPc = "returned" =>
        /\ \A j, k \in 1..Len(cMovies) :
              j # k => /\ cMovies[j].jellyfin_item.Id # cMovies[k].jellyfin_item.Id
                       /\ cMovies[j].radarr_item.id # cMovies[k].radarr_item.id
        /\ \A j, k \in 1..Len(cSeries) :
              j # k => /\ cSeries[j].jellyfin_item.Id # cSeries[k].jellyfin_item.Id
                       /\ cSeries[j].sonarr_item.id # cSeries[k].sonarr_item.id

\* C30: when several viewers report the same watched item Id, the pass
\* keeps one record for it, the record of the last listed viewer who reports
\* it: a candidate carries that record, an Id has at most one candidate, and
\* the favorite flag and the LastPlayedDate of that record decide the
\* favorite filter and the watch-age filter; with the movie manager connected
\* and no fault, a reported movie is a candidate exactly when that record
\* passes both filters and is matched.
C30_LastViewerRecordDecides ==
    LET Reporters(listing, id) ==
            {i \in 1..Len(jf.users) :
                \E k \in 1..Len(listing[jf.users[i]]) :
                    listing[jf.users[i]][k].Id = id}
        LastRecord(listing, id) ==
            LET i == CHOOSE x \in Reporters(listing, id) :
                         \A y \in Reporters(listing, id) : y <= x
                k == CHOOSE x \in 1..Len(listing[jf.users[i]]) :
                         listing[jf.users[i]][x].Id = id
            IN  listing[jf.users[i]][k]
        Passes(item) ==
            /\ ~item.UserData.IsFavorite
            /\ \/ cArgs.min_watch_age_days = NoAge
               \/ OldEnough(_parse_last_played(item), cArgs.min_watch_age_days)
        Places(candidates, id) ==
            {k \in 1..Len(candidates) : candidates[k].jellyfin_item.Id = id}
        Decided(listing, candidates, id) ==
            /\ Cardinality(Places(candidates, id)) <= 1
            /\ \A k \in Places(candidates, id) :
                  /\ Reporters(listing, id) # {}
                  /\ candidates[k].jellyfin_item = LastRecord(listing, id)
                  /\ Passes(LastRecord(listing, id))
    IN  cPc = "returned" =>
            /\ \A id \in {"m1", "m2"} : Decided(jf.movies, cMovies, id)
            /\ Decided(jf.series, cSeries, "s1")
            /\ radarr /\ faults = {} =>
                  \A id \in {"m1", "m2"} :
                      Reporters(jf.movies, id) # {} =>
                          (Places(cMovies, id) # {}
                              <=> /\ Passes(LastRecord(jf.movies, id))
                                  /\ find_matching_movie(LastRecord(jf.movies, id),
                                         catalog.movies, DefaultThreshold) # 0)

\* viewers listed u1, u2: u1 reports movie m1 as favorite, u2 reports it
\* as played 10 days ago and not favorite, and the pass without a minimum
\* age returned m1 as a candidate carrying the record of u2
C30_Witness ==
    /\ cPc = "returned"
    /\ jf.users = <<"u1", "u2">>
    /\ cArgs.min_watch_age_days = NoAge
    /\ jf.movies["u1"] # <<>>
    /\ jf.movies["u1"][1].Id = "m1"
    /\ jf.movies["u1"][1].UserData.IsFavorite
    /\ jf.movies["u2"] # <<>>
    /\ jf.movies["u2"][1].UserData.LastPlayedDate = Stamp("2024-02-20T00:00:00")
    /\ cMovies # <<>>
    /\ cMovies[1].jellyfin_item = jf.movies["u2"][1]

\* C5: in a pass driven by handle_cleanup with a connected torrent client no
\* movie or series candidate whose in_qbittorrent flag is true is passed to
\* execute_cleanup, get_cleanup_candidates builds no episode entry for a
\* series whose in_qbittorrent flag is true, and no deletion call is issued
\* for media the torrent client reports present.
C5_TorrentMediaNeverTargeted ==
    /\ (hExit # NoExit \/ xPc # "idle") /\ qbittorrent =>
          /\ \A k \in 1..Len(xArgs.movies) : ~xArgs.movies[k].in_qbittorrent
          /\ \A k \in 1..Len(xArgs.series) : ~xArgs.series[k].in_qbittorrent
          /\ calls = <<>>
    /\ cPc = "returned" =>
          \A k \in 1..Len(cEpisodes) :
              /\ ~cEpisodes[k].in_qbittorrent
              /\ ~InTorrents(cEpisodes[k].jellyfin_series.Name,
                             cEpisodes[k].jellyfin_series.ProductionYear)

\* a handle_cleanup pass has ended with the torrent client connected and a
\* matched candidate that the torrent client reports present
C5_Witness ==
    /\ hExit # NoExit
    /\ cPc = "returned"
    /\ qbittorrent
    /\ \/ \E k \in 1..Len(cMovies) : cMovies[k].in_qbittorrent
       \/ \E k \in 1..Len(cSeries) :
             /\ cSeries[k].in_qbittorrent
             /\ CollectUsers(jf.users, 1, cSeries[k].jellyfin_item.Id, <<>>, {}) # <<>>

(***************************************************************************)
(* Helpers of the service called on their own                              *)
(***************************************************************************)
\* the rest of the state while one helper is called
HelperFrame ==
    /\ MatchIdle
    /\ ExecIdle
    /\ WorldIdle
    /\ CandIdle
    /\ radarr = TRUE
    /\ sonarr = TRUE
    /\ qbittorrent = FALSE
    /\ pCall = "none"
    /\ pResult = <<>>

(***************************************************************************)
(* _filter_by_watch_age applied to bounded lists                           *)
(***************************************************************************)
MaxItems == 2

\* LastPlayedDate values: a well-formed date-and-time part, a date without
\* a time or a timestamp with a UTC offset, followed by one of several tails
DateStrings ==
    {NoDate} \cup
    {<<main>> \o tail :
        main \in WellFormedMains \cup {"2024-01-01", "2024-01-31T00:00:00+00:00"},
        tail \in {<<>>, <<"Z">>, <<"Z", "Z">>, <<".">>, <<".", "5">>,
                  <<".", "0", "0", "0", "0", "0", "0", "7", "Z">>,
                  <<".", "x">>, <<"Z", ".", "0">>}}

ItemLists ==
    {[i \in 1..Len(dates) |->
        Item(<<"i1", "i2", "i3", "i4">>[i], Up, NoYear, FALSE, dates[i])] :
        dates \in SeqsUpTo(DateStrings, MaxItems)}

AgeInit ==
    /\ HelperFrame
    /\ pArgs \in [items : ItemLists, min_age_days : {0, 10, 30}]

CallFilterByWatchAge ==
    /\ pCall = "none"
    /\ pCall' = "_filter_by_watch_age"
    /\ pResult' = _filter_by_watch_age(pArgs.items, pArgs.min_age_days)
    /\ UNCHANGED <<matchVars, svcVars, execVars, worldVars, candVars, pArgs>>

SpecAge == AgeInit /\ [][CallFilterByWatchAge]_vars

\* C12: _filter_by_watch_age keeps an item if and only if its LastPlayedDate
\* is present, is an ISO-8601 timestamp (optional fractional seconds,
\* truncated or padded to 6 digits, optional trailing Z) and is not later
\* than now minus min_age_days; the kept items keep their relative order.
C12_KeepsExactlyOldParsableItems ==
    LET \* the string without its optional trailing "Z"
        WithoutOneZ(date_str) ==
            IF date_str[Len(date_str)] = "Z"
            THEN SubSeq(date_str, 1, Len(date_str) - 1)
            ELSE date_str
        \* an ISO-8601 timestamp with optional fractional seconds
        IsoBody(body) ==
            /\ Len(body) >= 1
            /\ body[1] \in WellFormedMains
            /\ \/ Len(body) = 1
               \/ /\ Len(body) >= 3
                  /\ body[2] = "."
                  /\ \A k \in 3..Len(body) : IsDigit(body[k])
        \* its time, the fractional seconds truncated or padded to 6 digits
        IsoTime(body) ==
            <<AgeOfMain(body[1]),
              IF Len(body) = 1 THEN 0 ELSE Micro(Pad6(SubSeq(body, 3, Len(body))), 6)>>
        \* the items the watch-age rule keeps
        KeptByRule(item) ==
            /\ item.UserData.LastPlayedDate # NoDate
            /\ IsoBody(WithoutOneZ(item.UserData.LastPlayedDate))
            /\ OnOrBefore(IsoTime(WithoutOneZ(item.UserData.LastPlayedDate)),
                          <<pArgs.min_age_days, 0>>)
    IN  (pCall = "_filter_by_watch_age") =>
            pResult = SelectSeq(pArgs.items, KeptByRule)

(***************************************************************************)
(* normalize_title applied to bounded titles                               *)
(***************************************************************************)
MaxTitleLen == 5

\* every title of at most MaxTitleLen characters over a small alphabet, and
\* some longer ones: 'The A Team', 'The The', 'Matrix (1999) (hd)'
NormTitles ==
    SeqsUpTo({"A", "x", " ", "(", ")"}, MaxTitleLen) \cup Titles \cup
    {<<"T", "h", "e", " ", "A", " ", "T", "e", "a", "m">>,
     <<"T", "h", "e", " ", "T", "h", "e">>,
     <<"M", "a", "t", "r", "i", "x", " ", "(", "1", "9", "9", "9", ")", " ",
       "(", "h", "d", ")">>}

NormInit ==
    /\ HelperFrame
    /\ pArgs \in NormTitles

CallNormalizeTitle ==
    /\ pCall = "none"
    /\ pCall' = "normalize_title"
    /\ pResult' = normalize_title(pArgs)
    /\ UNCHANGED <<matchVars, svcVars, execVars, worldVars, candVars, pArgs>>

SpecNorm == NormInit /\ [][CallNormalizeTitle]_vars

\* C13: normalize_title is idempotent: normalizing its output again returns
\* that output unchanged, for every title.
C13_NormalizeIdempotent ==
    (pCall = "normalize_title") => normalize_title(pResult) = pResult

(***************************************************************************)
(* calculate_similarity applied to bounded pairs of titles                 *)
(***************************************************************************)
MaxSimLen == 3

SimTitles == SeqsUpTo({"a", "b", "!"}, MaxSimLen) \cup Titles

SimInit ==
    /\ HelperFrame
    /\ pArgs \in SimTitles \X SimTitles

CallCalculateSimilarity ==
    /\ pCall = "none"
    /\ pCall' = "calculate_similarity"
    /\ pResult' = calculate_similarity(pArgs[1], pArgs[2])
    /\ UNCHANGED <<matchVars, svcVars, execVars, worldVars, candVars, pArgs>>

SpecSim == SimInit /\ [][CallCalculateSimilarity]_vars

\* C14: calculate_similarity is symmetric: for every pair of titles the
\* score of (a, b) equals the score of (b, a).
C14_SimilaritySymmetric ==
    (pCall = "calculate_similarity") =>
        ScoreEQ(pResult, calculate_similarity(pArgs[2], pArgs[1]))

\* C15: calculate_similarity returns 1.0 when the two normalized forms are
\* the same non-empty string, and 0.0 when the two normalized forms share no
\* character, both being empty included.
C15_OneWhenSameZeroWhenDisjoint ==
    LET \* the two strings have no character in common
        ShareNoCharacter(norm1, norm2) ==
            \A i \in 1..Len(norm1) : \A j \in 1..Len(norm2) : norm1[i] # norm2[j]
    IN  (pCall = "calculate_similarity") =>
            /\ (normalize_title(pArgs[1]) = normalize_title(pArgs[2])
                   /\ normalize_title(pArgs[1]) # <<>>)
                  => ScoreEQ(pResult, <<1, 1, 0>>)
            /\ ShareNoCharacter(normalize_title(pArgs[1]), normalize_title(pArgs[2]))
                  => ScoreEQ(pResult, Zero)

(***************************************************************************)
(* _build_episode_cleanup_entry applied to bounded episode lists           *)
(***************************************************************************)
MaxWatched == 2

MaxCatalogEpisodes == 2

\* the watched episodes of the series that the viewer's listing reports:
\* season and episode number absent, 0 or 1
WatchedEpisodeLists ==
    {[k \in 1..Len(n) |->
         Episode(<<"e1", "e2", "e3", "e4">>[k], n[k][1], n[k][2], FALSE, Stamp("2024-01-01T00:00:00"))] :
        n \in SeqsUpTo({NoNumber, 0, 1} \X {NoNumber, 0, 1}, MaxWatched)}

\* the episodes of the series that the series manager lists
CatalogEpisodeLists ==
    {[k \in 1..Len(n) |-> CatalogEpisode(70 + k, n[k][1], n[k][2])] :
        n \in SeqsUpTo({0, 1} \X {0, 1}, MaxCatalogEpisodes)}

BuildInit ==
    /\ MatchIdle
    /\ ExecIdle
    /\ CandIdle
    /\ radarr = FALSE
    /\ sonarr \in BOOLEAN
    /\ qbittorrent = FALSE
    /\ torrents = <<>>
    /\ \E watched \in WatchedEpisodeLists :
          jf = [users |-> <<"u1">>,
                movies |-> NoListing,
                series |-> [u \in Viewers |->
                              Listing("s1", TheMatrix, 2002, "plain")],
                episodes |-> [s \in {"s1"} |->
                                [u \in Viewers |->
                                   [watched |-> IF u = "u1" THEN watched ELSE <<>>,
                                    favorites |-> <<>>]]],
                seasons |-> NoSeasons]
    /\ \E episodes \in CatalogEpisodeLists :
          catalog = [movies |-> <<>>,
                     series |-> <<CatalogEntry(7, Matrix, 2002)>>,
                     episodes |-> [id \in {7} |-> episodes]]
    /\ faults \in {{}, {<<"catalog_episodes", "sonarr">>}}
    /\ pCall = "none"
    /\ pArgs = [jellyfin_series |->
                    Item("s1", TheMatrix, 2002, FALSE, Stamp("2024-01-01T00:00:00")),
                sonarr_series |-> CatalogEntry(7, Matrix, 2002)]
    /\ pResult = <<>>

CallBuildEpisodeCleanupEntry ==
    /\ pCall = "none"
    /\ pCall' = "_build_episode_cleanup_entry"
    /\ pResult' = _build_episode_cleanup_entry(
                      jf.users, pArgs.jellyfin_series, pArgs.sonarr_series,
                      <<1, 1, 0>>, NoAge, FALSE)
    /\ UNCHANGED <<matchVars, svcVars, execVars, worldVars, candVars, pArgs>>

SpecBuild == BuildInit /\ [][CallBuildEpisodeCleanupEntry]_vars

\* the episodes collected for the series of the call
Collected ==
    _collect_watched_episodes_for_series(jf.users, pArgs.jellyfin_series, NoAge)

\* C16: _build_episode_cleanup_entry produces one episode candidate exactly
\* for each collected watched episode whose season and episode number are
\* both present (0 counts as present) and whose pair occurs in the series
\* manager's episode list; the others are skipped, and the function returns
\* None when no episode survives.
C16_OneCandidatePerJoinedEpisode ==
    LET \* the series manager lists an episode with these numbers
        HasCounterpart(season, number) ==
            \E j \in 1..Len(catalog.episodes[pArgs.sonarr_series.id]) :
                /\ catalog.episodes[pArgs.sonarr_series.id][j].seasonNumber = season
                /\ catalog.episodes[pArgs.sonarr_series.id][j].episodeNumber = number
        \* both numbers are present (0 included) and the pair has a counterpart
        Survives(episode) ==
            /\ episode.ParentIndexNumber # NoNumber
            /\ episode.IndexNumber # NoNumber
            /\ HasCounterpart(episode.ParentIndexNumber, episode.IndexNumber)
        \* the entry returned holds one candidate per surviving episode, in order
        OneCandidatePerSurvivor(returned, survivors) ==
            IF survivors = <<>> THEN returned = <<>>
            ELSE /\ Len(returned) = 1
                 /\ Len(returned[1].episodes) = Len(survivors)
                 /\ \A k \in 1..Len(survivors) :
                       /\ returned[1].episodes[k].jellyfin_episode = survivors[k]
                       /\ returned[1].episodes[k].season_number
                              = survivors[k].ParentIndexNumber
                       /\ returned[1].episodes[k].episode_number
                              = survivors[k].IndexNumber
                       /\ returned[1].episodes[k].sonarr_episode.seasonNumber
                              = survivors[k].ParentIndexNumber
                       /\ returned[1].episodes[k].sonarr_episode.episodeNumber
                              = survivors[k].IndexNumber
    IN  (pCall = "_build_episode_cleanup_entry" /\ sonarr /\ faults = {}) =>
            OneCandidatePerSurvivor(pResult, SelectSeq(Collected, Survives))

\* two episodes were collected: one without a number was skipped, the one of
\* season 0 became the only candidate
C16_Witness ==
    /\ pCall = "_build_episode_cleanup_entry"
    /\ sonarr
    /\ faults = {}
    /\ Len(Collected) = 2
    /\ \E k \in 1..2 :
          NumbersMissing(Collected[k].ParentIndexNumber, Collected[k].IndexNumber)
    /\ Len(pResult) = 1
    /\ Len(pResult[1].episodes) = 1
    /\ pResult[1].episodes[1].season_number = 0

(***************************************************************************)
(* is_media_in_torrents applied to bounded lists of completed torrents     *)
(***************************************************************************)
MaxTorrents == 2

\* media titles 'The Matrix', 'Up', '', '1999', 'up in the air' and
\* 'up in the', with no year, 1999 or 2009; completed torrents named
\* 'The.Matrix.1999.1080p.x264', 'up in smoke 2009', '[eztv] Up (2009) mkv',
\* 'up in the air now' and '2009'
TorrentInit ==
    /\ MatchIdle
    /\ ExecIdle
    /\ CandIdle
    /\ jf = [users |-> <<>>, movies |-> <<>>, series |-> <<>>,
             episodes |-> <<>>, seasons |-> <<>>]
    /\ catalog = [movies |-> <<>>, series |-> <<>>, episodes |-> <<>>]
    /\ faults = {}
    /\ radarr = TRUE
    /\ sonarr = TRUE
    /\ qbittorrent = TRUE
    /\ pCall = "none"
    /\ pResult = <<>>
    /\ pArgs \in
           {<<"T", "h", "e", " ", "M", "a", "t", "r", "i", "x">>,
            <<"U", "p">>,
            <<>>,
            <<"1", "9", "9", "9">>,
            <<"u", "p", " ", "i", "n", " ", "t", "h", "e", " ", "a", "i",
              "r">>,
            <<"u", "p", " ", "i", "n", " ", "t", "h", "e">>}
           \X {NoYear, 1999, 2009}
    /\ torrents \in SeqsUpTo(
           {<<"T", "h", "e", ".", "M", "a", "t", "r", "i", "x", ".", "1",
              "9", "9", "9", ".", "1", "0", "8", "0", "p", ".", "x", "2",
              "6", "4">>,
            <<"u", "p", " ", "i", "n", " ", "s", "m", "o", "k", "e", " ",
              "2", "0", "0", "9">>,
            <<"[", "e", "z", "t", "v", "]", " ", "U", "p", " ", "(", "2",
              "0", "0", "9", ")", " ", "m", "k", "v">>,
            <<"u", "p", " ", "i", "n", " ", "t", "h", "e", " ", "a", "i",
              "r", " ", "n", "o", "w">>,
            <<"2", "0", "0", "9">>},
           MaxTorrents)

CallIsMediaInTorrents ==
    /\ pCall = "none"
    /\ pCall' = "is_media_in_torrents"
    /\ pResult' = is_media_in_torrents(pArgs[1], pArgs[2])
    /\ UNCHANGED <<matchVars, svcVars, execVars, worldVars, candVars, pArgs>>

SpecTorrent == TorrentInit /\ [][CallIsMediaInTorrents]_vars

\* C24: is_media_in_torrents(title, year) returns true if and only if, for
\* some completed torrent, the Jaccard similarity of the token sets of the
\* normalized title and of the normalized torrent name, plus 0.2 when the
\* decimal string of the year occurs in the raw torrent name, is at least
\* 0.6; it returns false when there is no completed torrent and when the
\* normalized title has no tokens.
C24_InTorrentsIffScoreReached ==
    (pCall = "is_media_in_torrents") =>
        LET title_tokens == Tokens(normalize_title_for_matching(pArgs[1]))
            Reaches(name) ==
                LET both == title_tokens
                                \cap Tokens(normalize_title_for_matching(name))
                    any == title_tokens
                               \cup Tokens(normalize_title_for_matching(name))
                    fifths == IF YearInName(pArgs[2], name) THEN 1 ELSE 0
                IN  IF any = {} THEN fifths >= 3
                    ELSE 5 * Cardinality(both) + fifths * Cardinality(any)
                             >= 3 * Cardinality(any)
        IN  /\ pResult = (\E k \in 1..Len(torrents) : Reaches(torrents[k]))
            /\ torrents = <<>> => pResult = FALSE
            /\ title_tokens = {} => pResult = FALSE

\* 'up in the air' of 2009 was looked up among the torrents '2009' and
\* 'up in smoke 2009' and found: similarity 2/5 plus the year bonus
C24_Witness ==
    /\ pCall = "is_media_in_torrents"
    /\ pResult = TRUE
    /\ pArgs = <<<<"u", "p", " ", "i", "n", " ", "t", "h", "e", " ", "a", "i", "r">>, 2009>>
    /\ torrents = <<<<"2", "0", "0", "9">>,
                    <<"u", "p", " ", "i", "n", " ", "s", "m", "o", "k", "e", " ", "2", "0", "0", "9">>>>

=============================================================================
